---- MODULE Spec2Model ----
(***************************************************************************)
(* A model of the JetStream control plane of server/jetstream.go: the      *)
(* resource ledger (jetStream.memReserved / storeReserved), the account    *)
(* registry (Account.EnableJetStream, UpdateJetStreamLimits,               *)
(* DisableJetStream), the template engine (AddStreamTemplate,              *)
(* processInboundTemplateMsg, validateStreams) and the recovery walk of    *)
(* Account.EnableJetStream over the on-disk metadata.                      *)
(*                                                                         *)
(* Every handler is a sequence of steps of a process p, one step per       *)
(* critical section of the Go code; pc[p] is the position of p and loc[p]  *)
(* holds the handler's local variables.  The sequential specifications let *)
(* one process run, the concurrent ones several.                           *)
(***************************************************************************)
EXTENDS Integers, Sequences, FiniteSets, TLC

VARIABLES
    srvJs,          \* Server.js != nil
    srvCfg,         \* jetStream.config, the effective JetStreamConfig
    exports,        \* the JetStream service exports of the system account
    memReserved,    \* jetStream.memReserved
    storeReserved,  \* jetStream.storeReserved
    accounts,       \* the keys of jetStream.accounts
    jsa,            \* the jsAccount of each account (meaningful once created)
    ajs,            \* Account.js != nil
    disk,           \* the tree under <store_dir>/<account>/
    pc,             \* position of each process in its handler
    loc,            \* local variables of the handler each process runs
    ret,            \* what the last handler of each process returned
    issued,         \* history: recreate calls issued by the recovery walks
    snap,           \* history: the account's tree when its last recovery began
    pre,            \* history: streams and templates in memory at the last restart
                    \* or at the last disable of the account
    boots,          \* history: number of process restarts
    ncorrupt,       \* history: number of disk faults injected
    addCalls        \* history: AddStream calls issued by template dispatch

vars == <<srvJs, srvCfg, exports, memReserved, storeReserved, accounts, jsa, ajs, disk, pc, loc,
          ret, issued, snap, pre, boots, ncorrupt, addCalls>>

-----------------------------------------------------------------------------
(* Bounds of the model.                                                    *)

\* JetStreamConfig.MaxMemory / MaxStore of the running server (an input).
CfgMaxMemory == 3
CfgMaxStore == 3
\* Largest limit component an account asks for.
MaxLimit == 2
\* Largest memUsed / storeUsed the storage engine reports.
MaxUsed == 1
\* Number of disk faults injected while the control plane is down.
MaxCorrupt == 1
\* Largest max_streams of a template.
MaxTemplateStreams == 2
\* Number of restarts of the server process.
MaxBoots == 1

\* The largest delivered sequence a consumer's state reaches.
MaxDelivered == 1

\* The most messages a stream's log holds.
MaxIngest == 2
\* Range of the model's keyed hash.
HashMod == 7

-----------------------------------------------------------------------------
(* Names.  A name is a sequence of characters, so that CanonicalName can   *)
(* be computed on it.                                                      *)

SysAccount == "SYS"
Accounts == {"A1", "A2"}
AllAccounts == Accounts \cup {SysAccount}

Procs == {"p1", "p2", "p3"}

\* The characters in use, in ASCII order.
Alphabet == <<".", "_", "a", "b", "c", "e", "l", "m", "p", "s", "t", "u", "x", "y">>

CharCode(c) == CHOOSE i \in 1..Len(Alphabet) : Alphabet[i] = c

EmptyName == << >>
NameT == <<"t">>
NameU == <<"u">>
NameS == <<"s">>
NameAB == <<"a", "_", "b">>
NameC == <<"c">>
NameX == <<"x">>
NameY == <<"y">>

\* The strings a name field of a metafile can hold, indexed by their byte code.
NameTable == <<NameAB, NameC, NameS, NameT, NameU, NameX, NameY>>

MaxByte == Len(NameTable)

\* func CanonicalName
CanonicalName(name) ==
    [i \in 1..Len(name) |-> IF name[i] = "." THEN "_" ELSE name[i]]

\* func isValidName
isValidName(name) ==
    /\ name # EmptyName
    /\ \A i \in 1..Len(name) : name[i] \notin {".", "*", ">"}

RECURSIVE NameLess(_, _)
\* Byte-wise order of two names: the order ioutil.ReadDir lists entries in.
NameLess(a, b) ==
    IF a = << >> THEN b # << >>
    ELSE IF b = << >> THEN FALSE
    ELSE IF CharCode(Head(a)) # CharCode(Head(b))
         THEN CharCode(Head(a)) < CharCode(Head(b))
         ELSE NameLess(Tail(a), Tail(b))

RECURSIVE ReadDir(_)
\* ioutil.ReadDir: the entries of a directory sorted by name.
ReadDir(S) ==
    IF S = {} THEN << >>
    ELSE LET m == CHOOSE x \in S : \A y \in S \ {x} : NameLess(x, y)
         IN <<m>> \o ReadDir(S \ {m})

EmptyMap == [k \in {} |-> 0]

MapRemove(f, k) == [x \in DOMAIN f \ {k} |-> f[x]]

MapPut(f, k, v) == [x \in DOMAIN f \cup {k} |-> IF x = k THEN v ELSE f[x]]

-----------------------------------------------------------------------------
(* Metafiles: JSON encoding, keyed hash, hex.                              *)

FileStorage == "file"
MemoryStorage == "memory"

ObjOpen == 1

NameCode(name) ==
    IF name = EmptyName THEN 0
    ELSE CHOOSE i \in 1..Len(NameTable) : NameTable[i] = name

NameOfCode(b) == IF b = 0 THEN EmptyName ELSE NameTable[b]

StorageCode(st) == IF st = FileStorage THEN 0 ELSE 1

\* json.Marshal of a StreamTemplateConfig.
EncodeTemplate(tc) ==
    <<ObjOpen, NameCode(tc.Name), StorageCode(tc.Storage), tc.MaxStreams>>

\* json.Marshal of a FileStreamInfo.
EncodeStream(cfg) ==
    <<ObjOpen, NameCode(cfg.Name), StorageCode(cfg.Storage), NameCode(cfg.Template)>>

\* json.Marshal of a FileConsumerInfo.
EncodeConsumer(cfg) == <<ObjOpen, NameCode(cfg.Durable)>>

\* json.Unmarshal succeeds: the bytes are an object and the storage is a known one.
ParsesObject(buf, n) ==
    /\ Len(buf) = n
    /\ buf[1] = ObjOpen
    /\ \A i \in 2..n : buf[i] \in 0..MaxByte

ParsesTemplate(buf) == ParsesObject(buf, 4) /\ buf[3] \in {0, 1}

ParsesStream(buf) == ParsesObject(buf, 4) /\ buf[3] \in {0, 1}

ParsesConsumer(buf) == ParsesObject(buf, 2)

DecodeTemplate(buf) ==
    [Name |-> NameOfCode(buf[2]),
     Storage |-> IF buf[3] = 0 THEN FileStorage ELSE MemoryStorage,
     MaxStreams |-> buf[4]]

DecodeStream(buf) ==
    [Name |-> NameOfCode(buf[2]),
     Storage |-> IF buf[3] = 0 THEN FileStorage ELSE MemoryStorage,
     Template |-> NameOfCode(buf[4])]

DecodeConsumer(buf) == [Durable |-> NameOfCode(buf[2])]

RECURSIVE WeightedSum(_, _)
WeightedSum(buf, i) ==
    IF i > Len(buf) THEN 0 ELSE i * buf[i] + WeightedSum(buf, i + 1)

\* sha256.Sum256 of a name, the key of the hash.
Sha256(name) ==
    WeightedSum([i \in 1..Len(name) |-> CharCode(name[i])], 1) % HashMod

TemplatesKey == Sha256(<<"t", "e", "m", "p", "l", "a", "t", "e", "s">>)

\* highwayhash.New64(key) over buf.
HighwayHash64(key, buf) == (key + WeightedSum(buf, 1)) % HashMod

\* hex.EncodeToString of the hash.
HexEncode(n) == <<(n \div 16) % 16, n % 16>>

\* A file that does not exist.
NoFile == << >>

MetaPair(key, inf) == [inf |-> inf, sum |-> HexEncode(HighwayHash64(key, inf))]

-----------------------------------------------------------------------------
(* Limits and the ledger.                                                  *)

Limits(m, s, ns, nc) ==
    [MaxMemory |-> m, MaxStore |-> s, MaxStreams |-> ns, MaxConsumers |-> nc]

\* func (js *jetStream) dynamicAccountLimits
dynamicAccountLimits == Limits(CfgMaxMemory, CfgMaxStore, -1, -1)

LimitVals == (-1)..MaxLimit

\* The limits a caller passes; nil is passed as the dynamic limits it becomes.
LimitChoices ==
    {Limits(m, s, -1, -1) : m \in LimitVals, s \in {-1, MaxLimit}}
        \cup {dynamicAccountLimits}

\* An admission check that lets every request pass.
sufficientAlways(mr, sr, limits) == "ok"

\* func (js *jetStream) sufficientResources: "ok" or the error.
sufficientResources(mr, sr, limits) ==
    IF mr + limits.MaxMemory > CfgMaxMemory THEN "insufficient_memory"
    ELSE IF sr + limits.MaxStore > CfgMaxStore THEN "insufficient_store"
    ELSE "ok"

\* func (js *jetStream) reserveResources, one counter.
reserveResources(r, limit) == IF limit > 0 THEN r + limit ELSE r

\* A release that does not skip the non-positive limits.
releaseUnguarded(r, limit) == r - limit

\* func (js *jetStream) releaseResources, one counter.
releaseResources(r, limit) == IF limit > 0 THEN r - limit ELSE r

\* A difference that forgets the limits in force.
diffIgnoringOld(a, b) == b

\* func diffCheckedLimits
diffCheckedLimits(a, b) ==
    Limits(b.MaxMemory - a.MaxMemory, b.MaxStore - a.MaxStore, 0, 0)

-----------------------------------------------------------------------------
(* The server's JetStreamConfig and the service exports.                   *)

\* A path is the sequence of its elements; the empty path is the empty string.
EmptyPath == << >>

\* filepath.Join of a path and one element.
Join(path, elem) == Append(path, elem)

\* os.TempDir()
TempDir == <<"tmp">>

JetStreamStoreDir == "jetstream"

\* 256MB, used when the system memory cannot be determined.
JetStreamMaxMemDefault == 1024 * 1024 * 256

\* A *JetStreamConfig a caller passes; NilConfig is the nil pointer.
JetStreamConfig(m, s, d) ==
    [isNil |-> FALSE, MaxMemory |-> m, MaxStore |-> s, StoreDir |-> d]

NilConfig == [isNil |-> TRUE, MaxMemory |-> 0, MaxStore |-> 0, StoreDir |-> EmptyPath]

\* func (s *Server) dynJetStreamConfig; sysMem is what sysmem.Memory() reports
\* and avail what diskAvailable reports for the store directory.
dynJetStreamConfig(storeDir, maxStore, sysMem, avail) ==
    [MaxMemory |-> IF sysMem > 0 THEN (sysMem \div 4) * 3 ELSE JetStreamMaxMemDefault,
     MaxStore |-> IF maxStore > 0 THEN maxStore ELSE avail,
     StoreDir |-> IF storeDir # EmptyPath
                  THEN Join(storeDir, JetStreamStoreDir)
                  ELSE Join(Join(TempDir, "nats"), JetStreamStoreDir)]

\* Lines 99-113 of Server.EnableJetStream: the config the control plane keeps.
EffectiveConfig(config, sysMem, avail) ==
    LET c == IF config.isNil \/ config.MaxMemory <= 0 \/ config.MaxStore <= 0
             THEN dynJetStreamConfig(IF config.isNil THEN EmptyPath ELSE config.StoreDir,
                                     IF config.isNil THEN 0 ELSE config.MaxStore,
                                     sysMem, avail)
             ELSE [MaxMemory |-> config.MaxMemory, MaxStore |-> config.MaxStore,
                   StoreDir |-> config.StoreDir]
    IN IF c.StoreDir = EmptyPath
       THEN [c EXCEPT !.StoreDir = Join(TempDir, JetStreamStoreDir)]
       ELSE c

\* The config of the running server of the ledger specifications.
ConfiguredJetStream == JetStreamConfig(CfgMaxMemory, CfgMaxStore, <<"data">>)

\* The JetStream service export subjects, a constant list.
allJsExports == <<"$JS.API.INFO", "$JS.API.STREAM.>">>

AllExports == {allJsExports[i] : i \in 1..Len(allJsExports)}

-----------------------------------------------------------------------------
(* The state of an account, of a handler and of the disk.                  *)

\* jsAccount{js, account, limits, streams: make(map)} as EnableJetStream builds it.
NewJsa(limits) ==
    [limits |-> limits, memUsed |-> 0, storeUsed |-> 0, streams |-> EmptyMap,
     tmplNil |-> TRUE, templates |-> EmptyMap, store |-> "none"]

NoLimits == Limits(0, 0, 0, 0)

EmptyDisk == [sdir |-> FALSE, tdirs |-> EmptyMap, sdirs |-> EmptyMap, snaps |-> FALSE]

NoLoc ==
    [op |-> "none", acct |-> "none", limits |-> NoLimits, old |-> NoLimits,
     dl |-> NoLimits, todo |-> << >>, cur |-> EmptyName, mset |-> EmptyName,
     ctodo |-> << >>, tname |-> EmptyName, subj |-> EmptyName, cn |-> EmptyName,
     keep |-> << >>, jsas |-> {}, walk |-> {}, config |-> NilConfig, sysMem |-> 0,
     avail |-> 0, lastErr |-> "ok", eph |-> FALSE,
     held |-> << >>, script |-> << >>]

NoRet == [op |-> "none", acct |-> "none", err |-> "none"]

\* The handler of p returns err to its caller.
Return(p, op, a, err) ==
    /\ ret' = [ret EXCEPT ![p] = [op |-> op, acct |-> a, err |-> err]]
    /\ pc' = [pc EXCEPT ![p] = "ret"]
    /\ loc' = [loc EXCEPT ![p] = NoLoc]

Goto(p, label) == pc' = [pc EXCEPT ![p] = label]

Call(kind, dir, sub) == [kind |-> kind, dir |-> dir, sub |-> sub]

\* The state after construction: a running server with JetStream enabled, no
\* account enabled yet and an empty store directory.
InitState ==
    /\ srvJs = TRUE
    /\ srvCfg = EffectiveConfig(ConfiguredJetStream, 0, 0)
    /\ exports = AllExports
    /\ memReserved = 0
    /\ storeReserved = 0
    /\ accounts = {}
    /\ jsa = [a \in AllAccounts |-> NewJsa(NoLimits)]
    /\ ajs = [a \in AllAccounts |-> FALSE]
    /\ disk = [a \in AllAccounts |-> EmptyDisk]
    /\ pc = [p \in Procs |-> "idle"]
    /\ loc = [p \in Procs |-> NoLoc]
    /\ ret = [p \in Procs |-> NoRet]
    /\ issued = [a \in AllAccounts |-> {}]
    /\ snap = [a \in AllAccounts |-> EmptyDisk]
    /\ pre = [a \in AllAccounts |-> [streams |-> EmptyMap, templates |-> EmptyMap]]
    /\ boots = 0
    /\ ncorrupt = 0
    /\ addCalls = [p \in Procs |-> 0]

-----------------------------------------------------------------------------
(* Streams, templates and consumers of an account: the effect of the       *)
(* creation calls on the jsAccount j and on the account's tree d.          *)

\* func (jsa *jsAccount) checkLimits, the stream count.
checkLimits(j) ==
    IF j.limits.MaxStreams > 0 /\ Cardinality(DOMAIN j.streams) >= j.limits.MaxStreams
    THEN "max_streams" ELSE "ok"

\* The store a template is kept in: chosen when the templates map is first made.
TemplateStoreFor(j, storage) ==
    IF j.tmplNil
    THEN (IF storage = FileStorage THEN "file" ELSE "mem")
    ELSE j.store

\* func (a *Account) AddStreamTemplate, from jsa.mu.Lock() to jsa.store.Store(t).
AddStreamTemplateResult(j, d, tc) ==
    IF ~j.tmplNil /\ tc.Name \in DOMAIN j.templates
    THEN [err |-> "template_exists", j |-> j, d |-> d]
    ELSE LET store == TemplateStoreFor(j, tc.Storage)
             t == [Storage |-> tc.Storage, MaxStreams |-> tc.MaxStreams,
                   streams |-> << >>]
         IN [err |-> "ok",
             j |-> [j EXCEPT !.tmplNil = FALSE, !.store = store,
                             !.templates = MapPut(@, tc.Name, t)],
             d |-> IF store = "file"
                   THEN [d EXCEPT !.tdirs =
                            MapPut(@, tc.Name, MetaPair(TemplatesKey, EncodeTemplate(tc)))]
                   ELSE d]

\* Account.AddStream: the name is valid and new, the account's limits admit the
\* stream; a file stream writes meta.inf and meta.sum into its directory.
AddStreamResult(j, d, cfg) ==
    IF ~isValidName(cfg.Name) THEN [err |-> "name_invalid", j |-> j, d |-> d]
    ELSE IF cfg.Name \in DOMAIN j.streams
    THEN [err |-> "name_in_use", j |-> j, d |-> d]
    ELSE IF checkLimits(j) # "ok" THEN [err |-> checkLimits(j), j |-> j, d |-> d]
    ELSE LET ms == [Storage |-> cfg.Storage, Template |-> cfg.Template,
                    consumers |-> EmptyMap, msgs |-> << >>]
             obs == IF cfg.Name \in DOMAIN d.sdirs
                    THEN d.sdirs[cfg.Name].obs ELSE EmptyMap
             dir == [inf |-> EncodeStream(cfg),
                     sum |-> HexEncode(HighwayHash64(Sha256(cfg.Name), EncodeStream(cfg))),
                     obs |-> obs]
         IN [err |-> "ok",
             j |-> [j EXCEPT !.streams = MapPut(@, cfg.Name, ms)],
             d |-> IF cfg.Storage = FileStorage
                   THEN [d EXCEPT !.sdirs = MapPut(@, cfg.Name, dir)]
                   ELSE d]

\* Stream.AddConsumer of a consumer named name on stream sname; a consumer of a
\* file stream writes meta.inf and meta.sum into <stream>/obs/<name>/ and keeps
\* the state file it finds there.  The consumer starts with no message delivered.
AddConsumerResult(j, d, sname, name, cfg) ==
    IF sname \notin DOMAIN j.streams \/ name = EmptyName
    THEN [err |-> "no_stream", j |-> j, d |-> d]
    ELSE IF name \in DOMAIN j.streams[sname].consumers
    THEN [err |-> "consumer_exists", j |-> j, d |-> d]
    ELSE LET o == [Durable |-> cfg.Durable # EmptyName, state |-> 0]
             meta == MetaPair(Sha256(name), EncodeConsumer(cfg))
             kept == IF sname \in DOMAIN d.sdirs /\ name \in DOMAIN d.sdirs[sname].obs
                     THEN d.sdirs[sname].obs[name].state ELSE 0
             file == [inf |-> meta.inf, sum |-> meta.sum, state |-> kept]
         IN [err |-> "ok",
             j |-> [j EXCEPT !.streams[sname].consumers = MapPut(@, name, o)],
             d |-> IF j.streams[sname].Storage = FileStorage /\ sname \in DOMAIN d.sdirs
                   THEN [d EXCEPT !.sdirs[sname].obs = MapPut(@, name, file)]
                   ELSE d]

\* Consumer.switchToEphemeral: the durable name is dropped and the config rewritten.
switchToEphemeral(r, sname, name) ==
    LET meta == MetaPair(Sha256(name), EncodeConsumer([Durable |-> EmptyName]))
    IN [r EXCEPT
        !.j = [@ EXCEPT !.streams[sname].consumers[name].Durable = FALSE],
        !.d = IF r.j.streams[sname].Storage = FileStorage /\ sname \in DOMAIN r.d.sdirs
              THEN [@ EXCEPT !.sdirs[sname].obs[name] =
                        [inf |-> meta.inf, sum |-> meta.sum, state |-> @.state]]
              ELSE @]

\* Consumer.readStoredState: the consumer takes the state its store holds.
readStoredState(r, sname, name) ==
    IF /\ r.j.streams[sname].Storage = FileStorage
       /\ sname \in DOMAIN r.d.sdirs
       /\ name \in DOMAIN r.d.sdirs[sname].obs
    THEN [r EXCEPT !.j = [@ EXCEPT !.streams[sname].consumers[name].state =
                                        r.d.sdirs[sname].obs[name].state]]
    ELSE r

\* A recovery that lists no recovered stream in its template.
addStreamNameNowhere(j, tname, mname) == j

\* func (jsa *jsAccount) addStreamNameToTemplate
addStreamNameToTemplate(j, tname, mname) ==
    IF j.tmplNil \/ tname \notin DOMAIN j.templates THEN j
    ELSE [j EXCEPT !.templates[tname].streams = Append(@, mname)]

\* func (a *Account) checkForJetStream, then the call: a.js must be set.
AddStreamTemplateCall(a, tc) ==
    IF ~ajs[a] THEN [err |-> "not_enabled_for_account", j |-> jsa[a], d |-> disk[a]]
    ELSE AddStreamTemplateResult(jsa[a], disk[a], tc)

AddStreamCall(a, j, cfg) ==
    IF ~ajs[a] THEN [err |-> "not_enabled_for_account", j |-> j, d |-> disk[a]]
    ELSE AddStreamResult(j, disk[a], cfg)

-----------------------------------------------------------------------------
(* Account.EnableJetStream.                                                *)

\* A test that takes no account for the system account.
isSystemAccountNever(a) == FALSE

\* s.SystemAccount() == a
isSystemAccount(a) == a = SysAccount

\* A lookup that finds no account registered.
isRegisteredNever(accts, a) == FALSE

\* _, ok := js.accounts[a]
isRegistered(accts, a) == a \in accts

\* Lines 407-426: the server's JetStream is looked up, the system account refused.
EnableBegin(p, a, limits) ==
    /\ pc[p] = "idle"
    /\ IF ~srvJs THEN Return(p, "enable", a, "not_enabled")
       ELSE IF isSystemAccount(a) THEN Return(p, "enable", a, "system_account")
       ELSE /\ Goto(p, "en_reserve")
            /\ loc' = [loc EXCEPT ![p] = [NoLoc EXCEPT !.op = "enable", !.acct = a,
                                                      !.limits = limits]]
            /\ UNCHANGED ret
    /\ UNCHANGED <<srvJs, srvCfg, exports, memReserved, storeReserved, accounts, jsa, ajs, disk,
                   issued, snap, pre, boots, ncorrupt, addCalls>>

\* The map js.accounts of the jetStream a running handler holds is nil: a
\* shutdownJetStream has passed its line 339 (s.js is nil and no shutdown stands
\* between its lines 335 and 339).
AccountsNil ==
    /\ ~srvJs
    /\ \A q \in Procs : pc[q] # "sd_accounts"

\* Lines 428-442: one critical section of js.mu checks and reserves.  The
\* assignment js.accounts[a] = jsa of line 440 panics on a nil map; the call
\* then ends without registering or reserving.
EnableReserve(p) ==
    /\ pc[p] = "en_reserve"
    /\ LET a == loc[p].acct
           limits == loc[p].limits
           ok == sufficientResources(memReserved, storeReserved, limits)
       IN IF isRegistered(accounts, a)
          THEN /\ Return(p, "enable", a, "already_enabled")
               /\ UNCHANGED <<memReserved, storeReserved, accounts, jsa>>
          ELSE IF ok # "ok"
          THEN /\ Return(p, "enable", a, ok)
               /\ UNCHANGED <<memReserved, storeReserved, accounts, jsa>>
          ELSE IF AccountsNil
          THEN /\ Return(p, "enable", a, "panic")
               /\ UNCHANGED <<memReserved, storeReserved, accounts, jsa>>
          ELSE /\ accounts' = accounts \cup {a}
               /\ jsa' = [jsa EXCEPT ![a] = NewJsa(limits)]
               /\ memReserved' = reserveResources(memReserved, limits.MaxMemory)
               /\ storeReserved' = reserveResources(storeReserved, limits.MaxStore)
               /\ Goto(p, "en_stamp")
               /\ UNCHANGED <<loc, ret>>
    /\ UNCHANGED <<srvJs, srvCfg, exports, ajs, disk, issued, snap, pre, boots, ncorrupt, addCalls>>

\* Lines 444-447: a.js = jsa under a.mu.
EnableStamp(p) ==
    /\ pc[p] = "en_stamp"
    /\ ajs' = [ajs EXCEPT ![loc[p].acct] = TRUE]
    /\ Goto(p, "en_mkdir")
    /\ UNCHANGED <<srvJs, srvCfg, exports, memReserved, storeReserved, accounts, jsa, disk, loc, ret,
                   issued, snap, pre, boots, ncorrupt, addCalls>>

\* Lines 449-477: the service imports are added (none fails once the system
\* account has every export; an import of a missing export may fail), the
\* streams directory is made (os.MkdirAll may fail), then the templates
\* directory is listed.
EnableMkdir(p) ==
    /\ pc[p] = "en_mkdir"
    /\ LET a == loc[p].acct
       IN \/ /\ exports # AllExports
             /\ Return(p, "enable", a, "imports")
             /\ UNCHANGED <<disk, snap, issued>>
          \/ /\ disk' = [disk EXCEPT ![a].sdir = TRUE]
             /\ snap' = [snap EXCEPT ![a] = disk'[a]]
             /\ issued' = [issued EXCEPT ![a] = {}]
             /\ loc' = [loc EXCEPT ![p].todo = ReadDir(DOMAIN disk[a].tdirs)]
             /\ Goto(p, "en_tmpl")
             /\ UNCHANGED ret
          \/ /\ ~disk[a].sdir
             /\ Return(p, "enable", a, "mkdir")
             /\ UNCHANGED <<disk, snap, issued>>
    /\ UNCHANGED <<srvJs, srvCfg, exports, memReserved, storeReserved, accounts, jsa, ajs, pre, boots,
                   ncorrupt, addCalls>>

\* A comparison that accepts every checksum.
ChecksumIgnored(key, f) == TRUE

\* Lines 495-501 and 544-549: the hex of the keyed hash of the metafile equals
\* the stored checksum.
ChecksumMatches(key, f) == HexEncode(HighwayHash64(key, f.inf)) = f.sum

\* Lines 481-506: the template's metafile is read, verified and decoded.
TemplateAdoptable(f) ==
    /\ f.inf # NoFile
    /\ f.sum # NoFile
    /\ ChecksumMatches(TemplatesKey, f)
    /\ ParsesTemplate(f.inf)

\* Lines 518-555: the stream's metafile is read, verified and decoded.
StreamAdoptable(dir, f) ==
    /\ f.inf # NoFile
    /\ f.sum # NoFile
    /\ ChecksumMatches(Sha256(dir), f)
    /\ ParsesStream(f.inf)

\* Lines 581-600: the consumer's metafile is read and decoded; its checksum file
\* must exist.
ConsumerAdoptable(dir, f) ==
    /\ f.inf # NoFile
    /\ f.sum # NoFile
    /\ ParsesConsumer(f.inf)

\* Lines 478-512: one entry of the templates directory.
RecoverTemplate(p) ==
    /\ pc[p] = "en_tmpl"
    /\ loc[p].todo # << >>
    /\ LET a == loc[p].acct
           dir == Head(loc[p].todo)
           f == disk[a].tdirs[dir]
           r == AddStreamTemplateCall(a, DecodeTemplate(f.inf))
       IN /\ IF TemplateAdoptable(f)
             THEN /\ jsa' = [jsa EXCEPT ![a] = r.j]
                  /\ disk' = [disk EXCEPT ![a] = r.d]
                  /\ issued' = [issued EXCEPT ![a] = @ \cup {Call("template", dir, EmptyName)}]
             ELSE UNCHANGED <<jsa, disk, issued>>
          /\ loc' = [loc EXCEPT ![p].todo = Tail(@)]
    /\ UNCHANGED <<srvJs, srvCfg, exports, memReserved, storeReserved, accounts, ajs, pc, ret, snap,
                   pre, boots, ncorrupt, addCalls>>

\* Lines 515-517: the templates are done, the streams directory is listed.
RecoverStreamsBegin(p) ==
    /\ pc[p] = "en_tmpl"
    /\ loc[p].todo = << >>
    /\ loc' = [loc EXCEPT ![p].todo = ReadDir(DOMAIN disk[loc[p].acct].sdirs)]
    /\ Goto(p, "en_stream")
    /\ UNCHANGED <<srvJs, srvCfg, exports, memReserved, storeReserved, accounts, jsa, ajs, disk, ret,
                   issued, snap, pre, boots, ncorrupt, addCalls>>

\* Lines 517-561: one entry of the streams directory is read and verified; the
\* name of a stream that names a template is added to the template's list.
RecoverStream(p) ==
    /\ pc[p] = "en_stream"
    /\ loc[p].todo # << >>
    /\ LET a == loc[p].acct
           dir == Head(loc[p].todo)
           f == disk[a].sdirs[dir]
           cfg == DecodeStream(f.inf)
       IN IF ~StreamAdoptable(dir, f)
          THEN /\ loc' = [loc EXCEPT ![p].todo = Tail(@)]
               /\ UNCHANGED <<jsa, pc>>
          ELSE /\ jsa' = [jsa EXCEPT ![a] =
                              IF cfg.Template # EmptyName
                              THEN addStreamNameToTemplate(@, cfg.Template, cfg.Name)
                              ELSE @]
               /\ loc' = [loc EXCEPT ![p].todo = Tail(@), ![p].cur = dir]
               /\ Goto(p, "en_add")
    /\ UNCHANGED <<srvJs, srvCfg, exports, memReserved, storeReserved, accounts, ajs, disk, ret,
                   issued, snap, pre, boots, ncorrupt, addCalls>>

\* Lines 562-579: a.AddStream of the stream read; a recovered stream's consumer
\* directory is listed.
RecoverStreamAdd(p) ==
    /\ pc[p] = "en_add"
    /\ LET a == loc[p].acct
           dir == loc[p].cur
           f == disk[a].sdirs[dir]
           cfg == DecodeStream(f.inf)
           r == AddStreamCall(a, jsa[a], cfg)
       IN /\ jsa' = [jsa EXCEPT ![a] = r.j]
          /\ disk' = [disk EXCEPT ![a] = r.d]
          /\ issued' = [issued EXCEPT ![a] = @ \cup {Call("stream", dir, EmptyName)}]
          /\ IF r.err = "ok"
             THEN /\ loc' = [loc EXCEPT ![p].mset = cfg.Name,
                                        ![p].ctodo = ReadDir(DOMAIN f.obs)]
                  /\ Goto(p, "en_cons")
             ELSE /\ UNCHANGED loc
                  /\ Goto(p, "en_stream")
    /\ UNCHANGED <<srvJs, srvCfg, exports, memReserved, storeReserved, accounts, ajs, ret, snap, pre,
                   boots, ncorrupt, addCalls>>

\* Lines 580-609: one entry of the stream's consumer directory is read and the
\* consumer is added; an ephemeral one is added as a durable named after its
\* directory.
RecoverConsumer(p) ==
    /\ pc[p] = "en_cons"
    /\ loc[p].ctodo # << >>
    /\ LET a == loc[p].acct
           dir == loc[p].cur
           odir == Head(loc[p].ctodo)
           f == disk[a].sdirs[dir].obs[odir]
           cfg == DecodeConsumer(f.inf)
           isEphemeral == cfg.Durable = EmptyName
           cfg2 == IF isEphemeral THEN [Durable |-> odir] ELSE cfg
           r == AddConsumerResult(jsa[a], disk[a], loc[p].mset, cfg2.Durable, cfg2)
       IN IF ~ConsumerAdoptable(odir, f)
          THEN /\ loc' = [loc EXCEPT ![p].ctodo = Tail(@)]
               /\ UNCHANGED <<jsa, disk, issued, pc>>
          ELSE /\ jsa' = [jsa EXCEPT ![a] = r.j]
               /\ disk' = [disk EXCEPT ![a] = r.d]
               /\ issued' = [issued EXCEPT ![a] = @ \cup {Call("consumer", dir, odir)}]
               /\ IF r.err = "ok"
                  THEN /\ loc' = [loc EXCEPT ![p].ctodo = Tail(@), ![p].cn = cfg2.Durable,
                                             ![p].eph = isEphemeral]
                       /\ Goto(p, "en_switch")
                  ELSE /\ loc' = [loc EXCEPT ![p].ctodo = Tail(@)]
                       /\ UNCHANGED pc
    /\ UNCHANGED <<srvJs, srvCfg, exports, memReserved, storeReserved, accounts, ajs, ret, snap,
                   pre, boots, ncorrupt, addCalls>>

\* Lines 610-620: the consumer added for an ephemeral one is switched to
\* ephemeral, then the consumer reads its stored state.
RecoverConsumerSwitch(p) ==
    /\ pc[p] = "en_switch"
    /\ LET a == loc[p].acct
           r == [j |-> jsa[a], d |-> disk[a]]
           r2 == IF loc[p].eph THEN switchToEphemeral(r, loc[p].mset, loc[p].cn) ELSE r
           r3 == readStoredState(r2, loc[p].mset, loc[p].cn)
       IN /\ jsa' = [jsa EXCEPT ![a] = r3.j]
          /\ disk' = [disk EXCEPT ![a] = r3.d]
    /\ loc' = [loc EXCEPT ![p].cn = EmptyName, ![p].eph = FALSE]
    /\ Goto(p, "en_cons")
    /\ UNCHANGED <<srvJs, srvCfg, exports, memReserved, storeReserved, accounts, ajs, ret,
                   issued, snap, pre, boots, ncorrupt, addCalls>>

\* Line 621-622: the consumers of the stream are done, the next stream follows.
RecoverConsumersEnd(p) ==
    /\ pc[p] = "en_cons"
    /\ loc[p].ctodo = << >>
    /\ Goto(p, "en_stream")
    /\ UNCHANGED <<srvJs, srvCfg, exports, memReserved, storeReserved, accounts, jsa, ajs, disk, loc,
                   ret, issued, snap, pre, boots, ncorrupt, addCalls>>

\* Lines 624-629: every stream is done; the snapshots directory is removed and
\* the handler returns nil.
EnableDone(p) ==
    /\ pc[p] = "en_stream"
    /\ loc[p].todo = << >>
    /\ disk' = [disk EXCEPT ![loc[p].acct].snaps = FALSE]
    /\ Return(p, "enable", loc[p].acct, "ok")
    /\ UNCHANGED <<srvJs, srvCfg, exports, memReserved, storeReserved, accounts, jsa, ajs,
                   issued, snap, pre, boots, ncorrupt, addCalls>>

\* The steps of Account.EnableJetStream after its first.
EnableStep(p) ==
    \/ EnableReserve(p)
    \/ EnableStamp(p)
    \/ EnableMkdir(p)
    \/ RecoverTemplate(p)
    \/ RecoverStreamsBegin(p)
    \/ RecoverStream(p)
    \/ RecoverStreamAdd(p)
    \/ RecoverConsumer(p)
    \/ RecoverConsumerSwitch(p)
    \/ RecoverConsumersEnd(p)
    \/ EnableDone(p)

\* The caller of p has taken the handler's result; what the history recorded of
\* the call is dropped with it.
Finish(p) ==
    /\ pc[p] = "ret"
    /\ pc' = [pc EXCEPT ![p] = "idle"]
    /\ ret' = [ret EXCEPT ![p] = NoRet]
    /\ IF ret[p].op \in {"enable", "delete_template"} /\ ret[p].acct \in AllAccounts
       THEN /\ issued' = [issued EXCEPT ![ret[p].acct] = {}]
            /\ snap' = [snap EXCEPT ![ret[p].acct] = EmptyDisk]
       ELSE UNCHANGED <<issued, snap>>
    /\ IF ret[p].op = "enable" /\ ret[p].acct \in AllAccounts /\ ret[p].err = "ok"
       THEN pre' = [pre EXCEPT ![ret[p].acct] = [streams |-> EmptyMap, templates |-> EmptyMap]]
       ELSE UNCHANGED pre
    /\ addCalls' = [addCalls EXCEPT ![p] = 0]
    /\ UNCHANGED <<srvJs, srvCfg, exports, memReserved, storeReserved, accounts, jsa, ajs, disk, loc,
                   boots, ncorrupt>>

-----------------------------------------------------------------------------
(* Account.UpdateJetStreamLimits.                                          *)

\* Lines 700-725: a.js and the server's JetStream are read; under jsa.mu the
\* delta to the current limits is computed and the current limits are copied.
UpdateBegin(p, a, limits) ==
    /\ pc[p] = "idle"
    /\ IF ~srvJs THEN Return(p, "update", a, "not_enabled")
       ELSE IF ~ajs[a] THEN Return(p, "update", a, "not_enabled_for_account")
       ELSE /\ Goto(p, "upd_ledger")
            /\ loc' = [loc EXCEPT ![p] =
                    [NoLoc EXCEPT !.op = "update", !.acct = a, !.limits = limits,
                                  !.dl = diffCheckedLimits(jsa[a].limits, limits),
                                  !.old = jsa[a].limits]]
            /\ UNCHANGED ret
    /\ UNCHANGED <<srvJs, srvCfg, exports, memReserved, storeReserved, accounts, jsa, ajs, disk,
                   issued, snap, pre, boots, ncorrupt, addCalls>>

\* Lines 727-736: one critical section of js.mu checks the delta, releases the
\* old limits and reserves the new ones.
UpdateLedger(p) ==
    /\ pc[p] = "upd_ledger"
    /\ LET ok == sufficientResources(memReserved, storeReserved, loc[p].dl)
       IN IF ok # "ok"
          THEN /\ Return(p, "update", loc[p].acct, ok)
               /\ UNCHANGED <<memReserved, storeReserved>>
          ELSE /\ memReserved' =
                    reserveResources(releaseResources(memReserved, loc[p].old.MaxMemory),
                                     loc[p].limits.MaxMemory)
               /\ storeReserved' =
                    reserveResources(releaseResources(storeReserved, loc[p].old.MaxStore),
                                     loc[p].limits.MaxStore)
               /\ Goto(p, "upd_write")
               /\ UNCHANGED <<loc, ret>>
    /\ UNCHANGED <<srvJs, srvCfg, exports, accounts, jsa, ajs, disk, issued, snap, pre, boots,
                   ncorrupt, addCalls>>

\* A write that installs a fresh jsAccount instead of updating the limits.
WithFreshAccount(j, limits) == NewJsa(limits)

\* The jsAccount after jsa.limits = *limits.
WithLimits(j, limits) == [j EXCEPT !.limits = limits]

\* Lines 738-743: jsa.limits is overwritten under jsa.mu.
UpdateWrite(p) ==
    /\ pc[p] = "upd_write"
    /\ jsa' = [jsa EXCEPT ![loc[p].acct] = WithLimits(@, loc[p].limits)]
    /\ Return(p, "update", loc[p].acct, "ok")
    /\ UNCHANGED <<srvJs, srvCfg, exports, memReserved, storeReserved, accounts, ajs, disk, issued,
                   snap, pre, boots, ncorrupt, addCalls>>

UpdateStep(p) == UpdateLedger(p) \/ UpdateWrite(p)

-----------------------------------------------------------------------------
(* Account.DisableJetStream.                                               *)

\* The names and configs of the streams and of the templates of a jsAccount.
StreamConfigs(j) ==
    [n \in DOMAIN j.streams |->
        [Storage |-> j.streams[n].Storage, Template |-> j.streams[n].Template]]

TemplateConfigs(j) ==
    [n \in DOMAIN j.templates |->
        [Storage |-> j.templates[n].Storage, MaxStreams |-> j.templates[n].MaxStreams]]

\* Lines 772-790: a.js = nil under a.mu, then the server's JetStream is read.
DisableBegin(p, a) ==
    /\ pc[p] = "idle"
    /\ ajs' = [ajs EXCEPT ![a] = FALSE]
    /\ IF ~srvJs THEN Return(p, "disable", a, "not_enabled")
       ELSE /\ Goto(p, "dis_lookup")
            /\ loc' = [loc EXCEPT ![p] = [NoLoc EXCEPT !.op = "disable", !.acct = a]]
            /\ UNCHANGED ret
    /\ UNCHANGED <<srvJs, srvCfg, exports, memReserved, storeReserved, accounts, jsa, disk, issued,
                   snap, pre, boots, ncorrupt, addCalls>>

\* Lines 792 and 796-799: js.lookupAccount(a) under js.mu; nil is an error.
DisableLookup(p) ==
    /\ pc[p] = "dis_lookup"
    /\ IF loc[p].acct \notin accounts
       THEN Return(p, "disable", loc[p].acct, "not_enabled_for_account")
       ELSE Goto(p, "dis_ledger") /\ UNCHANGED <<loc, ret>>
    /\ UNCHANGED <<srvJs, srvCfg, exports, memReserved, storeReserved, accounts, jsa, ajs, disk,
                   issued, snap, pre, boots, ncorrupt, addCalls>>

\* Lines 801-804: one critical section of js.mu deletes the account and releases
\* its limits. pre records what the account exposes at that point.
DisableLedger(p) ==
    /\ pc[p] = "dis_ledger"
    /\ accounts' = accounts \ {loc[p].acct}
    /\ memReserved' = releaseResources(memReserved, jsa[loc[p].acct].limits.MaxMemory)
    /\ storeReserved' = releaseResources(storeReserved, jsa[loc[p].acct].limits.MaxStore)
    /\ pre' = [pre EXCEPT ![loc[p].acct] =
                    [streams |-> StreamConfigs(jsa[loc[p].acct]),
                     templates |-> TemplateConfigs(jsa[loc[p].acct])]]
    /\ Goto(p, "dis_delete")
    /\ UNCHANGED <<srvJs, srvCfg, exports, jsa, ajs, disk, loc, ret, issued, snap, boots,
                   ncorrupt, addCalls>>

\* func (jsa *jsAccount) delete: the streams are stopped (their data stays on
\* disk) and the templates map is dropped.
StoppedJsa(j) ==
    [j EXCEPT !.streams = EmptyMap, !.templates = EmptyMap, !.tmplNil = TRUE]

\* A jsAccount that a.js, js.accounts and no running handler refer to is garbage:
\* it is collected (put back to its zero value).
Collect(p, a, j) ==
    IF \/ ajs[a]
       \/ a \in accounts
       \/ \E q \in Procs \ {p} : pc[q] # "idle" /\ loc[q].acct = a
       \/ \E q \in Procs \ {p} : pc[q] # "idle" /\ a \in loc[q].jsas
    THEN j
    ELSE NewJsa(NoLimits)

\* Lines 806-808: jsa.delete(), then nil is returned.
DisableDelete(p) ==
    /\ pc[p] = "dis_delete"
    /\ jsa' = [jsa EXCEPT ![loc[p].acct] = Collect(p, loc[p].acct, StoppedJsa(@))]
    /\ Return(p, "disable", loc[p].acct, "ok")
    /\ UNCHANGED <<srvJs, srvCfg, exports, memReserved, storeReserved, accounts, ajs, disk, issued,
                   snap, pre, boots, ncorrupt, addCalls>>

DisableStep(p) == DisableLookup(p) \/ DisableLedger(p) \/ DisableDelete(p)

-----------------------------------------------------------------------------
(* Server.EnableJetStream and shutdownJetStream.                           *)

\* The critical section of js.disableJetStream(jsa): under js.mu the account is
\* deleted from js.accounts and the limits of the jsAccount are released.
ReleaseAccount(a) ==
    /\ accounts' = accounts \ {a}
    /\ memReserved' = releaseResources(memReserved, jsa[a].limits.MaxMemory)
    /\ storeReserved' = releaseResources(storeReserved, jsa[a].limits.MaxStore)

\* jsa.delete() of the jsAccount of a, called by p.
DeleteAccountState(p, a) ==
    jsa' = [jsa EXCEPT ![a] = Collect(p, a, StoppedJsa(@))]

\* Lines 92-117: under s.mu a second enable is refused; else the config is
\* completed and s.js is set to a new control plane: an empty account map and a
\* zero ledger.  The handlers that began on an earlier control plane have
\* returned.
ServerEnableBegin(p, config, sysMem, avail) ==
    /\ pc[p] = "idle"
    /\ IF srvJs
       THEN /\ Return(p, "server_enable", "none", "already_enabled")
            /\ UNCHANGED <<srvJs, srvCfg, memReserved, storeReserved, accounts>>
       ELSE /\ \A q \in Procs : pc[q] = "idle"
            /\ srvJs' = TRUE
            /\ srvCfg' = EffectiveConfig(config, sysMem, avail)
            /\ memReserved' = 0
            /\ storeReserved' = 0
            /\ accounts' = {}
            /\ Goto(p, "se_dir")
            /\ loc' = [loc EXCEPT ![p] =
                    [NoLoc EXCEPT !.op = "server_enable", !.config = config,
                                  !.sysMem = sysMem, !.avail = avail]]
            /\ UNCHANGED ret
    /\ UNCHANGED <<exports, jsa, ajs, disk, issued, snap, pre, boots, ncorrupt, addCalls>>

\* Lines 119-165: the store directory is made or probed and the internal
\* subscriptions are set up; each may fail, and the handler then returns the
\* error with s.js left as set.
ServerEnableDir(p) ==
    /\ pc[p] = "se_dir"
    /\ \/ Goto(p, "se_exports") /\ UNCHANGED <<loc, ret>>
       \/ \E err \in {"store_dir", "export_subs"} : Return(p, "server_enable", "none", err)
    /\ UNCHANGED <<srvJs, srvCfg, exports, memReserved, storeReserved, accounts, jsa, ajs,
                   disk, issued, snap, pre, boots, ncorrupt, addCalls>>

\* The exports of allJsExports the system account does not have yet, in order.
MissingExports ==
    SelectSeq(allJsExports, LAMBDA e : e \notin exports)

\* Lines 167-174: one sacc.AddServiceExport of the loop, or the end of the loop.
ServerEnableExport(p) ==
    /\ pc[p] = "se_exports"
    /\ IF MissingExports # << >>
       THEN exports' = exports \cup {Head(MissingExports)} /\ UNCHANGED pc
       ELSE Goto(p, "se_snapshot") /\ UNCHANGED exports
    /\ UNCHANGED <<srvJs, srvCfg, memReserved, storeReserved, accounts, jsa, ajs, disk,
                   loc, ret, issued, snap, pre, boots, ncorrupt, addCalls>>

\* Lines 185-192 and 277-291: the server has configured accounts, so
\* configAllJetStreamAccounts lists them under s.mu, or returns when s.js is nil.
ServerEnableSnapshot(p) ==
    /\ pc[p] = "se_snapshot"
    /\ IF ~srvJs
       THEN Return(p, "server_enable", "none", "ok")
       ELSE /\ loc' = [loc EXCEPT ![p].walk = AllAccounts]
            /\ Goto(p, "se_config")
            /\ UNCHANGED ret
    /\ UNCHANGED <<srvJs, srvCfg, exports, memReserved, storeReserved, accounts, jsa, ajs,
                   disk, issued, snap, pre, boots, ncorrupt, addCalls>>

\* Lines 293-299 and configJetStream for an account configured without limits:
\* an account found enabled is disabled (lines 772-785: a.js = nil, then s.js is
\* read), the others get the info import only; after the last account the
\* handler returns nil.
ServerConfigAccount(p) ==
    /\ pc[p] = "se_config"
    /\ IF loc[p].walk = {}
       THEN Return(p, "server_enable", "none", "ok") /\ UNCHANGED ajs
       ELSE \E a \in loc[p].walk :
              /\ UNCHANGED ret
              /\ IF a # SysAccount /\ ajs[a]
                 THEN /\ ajs' = [ajs EXCEPT ![a] = FALSE]
                      /\ loc' = [loc EXCEPT ![p].walk = @ \ {a}, ![p].acct = a]
                      /\ IF srvJs THEN Goto(p, "se_dis_lookup") ELSE UNCHANGED pc
                 ELSE /\ loc' = [loc EXCEPT ![p].walk = @ \ {a}]
                      /\ UNCHANGED <<ajs, pc>>
    /\ UNCHANGED <<srvJs, srvCfg, exports, memReserved, storeReserved, accounts, jsa, disk,
                   issued, snap, pre, boots, ncorrupt, addCalls>>

\* Lines 792 and 796-799 inside the walk: the error of a lookup that finds no
\* jsAccount is dropped by configJetStream.
ServerDisableLookup(p) ==
    /\ pc[p] = "se_dis_lookup"
    /\ IF loc[p].acct \in accounts
       THEN /\ Goto(p, "se_dis_ledger")
            /\ loc' = [loc EXCEPT ![p].jsas = {loc[p].acct}]
       ELSE /\ Goto(p, "se_config")
            /\ loc' = [loc EXCEPT ![p].acct = "none"]
    /\ UNCHANGED <<srvJs, srvCfg, exports, memReserved, storeReserved, accounts, jsa, ajs,
                   disk, ret, issued, snap, pre, boots, ncorrupt, addCalls>>

\* Lines 801-804 inside the walk.
ServerDisableLedger(p) ==
    /\ pc[p] = "se_dis_ledger"
    /\ ReleaseAccount(loc[p].acct)
    /\ Goto(p, "se_dis_delete")
    /\ UNCHANGED <<srvJs, srvCfg, exports, jsa, ajs, disk, loc, ret, issued, snap, pre,
                   boots, ncorrupt, addCalls>>

\* Lines 806-808 inside the walk.
ServerDisableDelete(p) ==
    /\ pc[p] = "se_dis_delete"
    /\ DeleteAccountState(p, loc[p].acct)
    /\ loc' = [loc EXCEPT ![p].acct = "none", ![p].jsas = {}]
    /\ Goto(p, "se_config")
    /\ UNCHANGED <<srvJs, srvCfg, exports, memReserved, storeReserved, accounts, ajs, disk,
                   ret, issued, snap, pre, boots, ncorrupt, addCalls>>

\* Lines 311-318: s.js is read under s.mu; nil ends the shutdown.
ShutdownBegin(p) ==
    /\ pc[p] = "idle"
    /\ IF ~srvJs
       THEN Return(p, "shutdown", "none", "ok")
       ELSE /\ Goto(p, "sd_collect")
            /\ loc' = [loc EXCEPT ![p] = [NoLoc EXCEPT !.op = "shutdown"]]
            /\ UNCHANGED ret
    /\ UNCHANGED <<srvJs, srvCfg, exports, memReserved, storeReserved, accounts, jsa, ajs,
                   disk, issued, snap, pre, boots, ncorrupt, addCalls>>

\* Lines 320-328: the jsAccounts of js.accounts are collected under js.mu.
ShutdownCollect(p) ==
    /\ pc[p] = "sd_collect"
    /\ loc' = [loc EXCEPT ![p].jsas = accounts]
    /\ Goto(p, "sd_disable")
    /\ UNCHANGED <<srvJs, srvCfg, exports, memReserved, storeReserved, accounts, jsa, ajs,
                   disk, ret, issued, snap, pre, boots, ncorrupt, addCalls>>

\* Lines 330-332 and 801-804: js.disableJetStream of one collected jsAccount, its
\* critical section of js.mu.
ShutdownLedger(p) ==
    /\ pc[p] = "sd_disable"
    /\ \E a \in loc[p].jsas :
          /\ ReleaseAccount(a)
          /\ loc' = [loc EXCEPT ![p].acct = a]
    /\ Goto(p, "sd_delete")
    /\ UNCHANGED <<srvJs, srvCfg, exports, jsa, ajs, disk, ret, issued, snap, pre, boots,
                   ncorrupt, addCalls>>

\* Line 806: jsa.delete() of that jsAccount.
ShutdownDelete(p) ==
    /\ pc[p] = "sd_delete"
    /\ DeleteAccountState(p, loc[p].acct)
    /\ loc' = [loc EXCEPT ![p].acct = "none", ![p].jsas = @ \ {loc[p].acct}]
    /\ Goto(p, "sd_disable")
    /\ UNCHANGED <<srvJs, srvCfg, exports, memReserved, storeReserved, accounts, ajs, disk,
                   ret, issued, snap, pre, boots, ncorrupt, addCalls>>

\* Lines 334-336: s.js = nil under s.mu, once every collected account is done.
ShutdownNil(p) ==
    /\ pc[p] = "sd_disable"
    /\ loc[p].jsas = {}
    /\ srvJs' = FALSE
    /\ Goto(p, "sd_accounts")
    /\ UNCHANGED <<srvCfg, exports, memReserved, storeReserved, accounts, jsa, ajs, disk,
                   loc, ret, issued, snap, pre, boots, ncorrupt, addCalls>>

\* Lines 338-351: js.accounts = nil under js.mu (the server is not clustered).
ShutdownAccounts(p) ==
    /\ pc[p] = "sd_accounts"
    /\ accounts' = {}
    /\ Return(p, "shutdown", "none", "ok")
    /\ UNCHANGED <<srvJs, srvCfg, exports, memReserved, storeReserved, jsa, ajs, disk,
                   issued, snap, pre, boots, ncorrupt, addCalls>>

ShutdownStep(p) ==
    \/ ShutdownCollect(p)
    \/ ShutdownLedger(p)
    \/ ShutdownDelete(p)
    \/ ShutdownNil(p)
    \/ ShutdownAccounts(p)

-----------------------------------------------------------------------------
(* Usage accounting and the creation calls of a client.                    *)

\* func (jsa *jsAccount) updateUsage
UsageAfter(j, storeType, delta) ==
    IF storeType = MemoryStorage
    THEN [j EXCEPT !.memUsed = @ + delta]
    ELSE [j EXCEPT !.storeUsed = @ + delta]

\* The storage engine of a stream of the account reports a change of usage.
updateUsage(p, a, storeType, delta) ==
    /\ pc[p] = "idle"
    /\ ajs[a]
    /\ \E n \in DOMAIN jsa[a].streams : jsa[a].streams[n].Storage = storeType
    /\ LET j == UsageAfter(jsa[a], storeType, delta)
       IN /\ j.memUsed \in 0..MaxUsed
          /\ j.storeUsed \in 0..MaxUsed
          /\ jsa' = [jsa EXCEPT ![a] = j]
    /\ UNCHANGED <<srvJs, srvCfg, exports, memReserved, storeReserved, accounts, ajs, disk, pc, loc,
                   ret, issued, snap, pre, boots, ncorrupt, addCalls>>

\* A client adds a stream.
AddStream(p, a, cfg) ==
    /\ pc[p] = "idle"
    /\ LET r == AddStreamCall(a, jsa[a], cfg)
       IN /\ jsa' = [jsa EXCEPT ![a] = r.j]
          /\ disk' = [disk EXCEPT ![a] = r.d]
          /\ Return(p, "add_stream", a, r.err)
    /\ UNCHANGED <<srvJs, srvCfg, exports, memReserved, storeReserved, accounts, ajs, issued, snap,
                   pre, boots, ncorrupt, addCalls>>

\* A client adds a stream template.
AddStreamTemplate(p, a, tc) ==
    /\ pc[p] = "idle"
    /\ LET r == AddStreamTemplateCall(a, tc)
       IN /\ jsa' = [jsa EXCEPT ![a] = r.j]
          /\ disk' = [disk EXCEPT ![a] = r.d]
          /\ Return(p, "add_template", a, r.err)
    /\ UNCHANGED <<srvJs, srvCfg, exports, memReserved, storeReserved, accounts, ajs, issued, snap,
                   pre, boots, ncorrupt, addCalls>>

\* A client adds a consumer, durable or ephemeral, to a stream.
AddConsumer(p, a, sname, name, durable) ==
    /\ pc[p] = "idle"
    /\ ajs[a]
    /\ LET cfg == [Durable |-> IF durable THEN name ELSE EmptyName]
           r == AddConsumerResult(jsa[a], disk[a], sname, name, cfg)
       IN /\ jsa' = [jsa EXCEPT ![a] = r.j]
          /\ disk' = [disk EXCEPT ![a] = r.d]
          /\ Return(p, "add_consumer", a, r.err)
    /\ UNCHANGED <<srvJs, srvCfg, exports, memReserved, storeReserved, accounts, ajs, issued, snap,
                   pre, boots, ncorrupt, addCalls>>

\* A consumer delivers a message: its delivered sequence advances and a
\* consumer of a file stream writes the new state to its store.
ConsumerDeliver(a, sname, name) ==
    /\ ajs[a]
    /\ sname \in DOMAIN jsa[a].streams
    /\ name \in DOMAIN jsa[a].streams[sname].consumers
    /\ jsa[a].streams[sname].consumers[name].state < MaxDelivered
    /\ LET n == jsa[a].streams[sname].consumers[name].state + 1
       IN /\ jsa' = [jsa EXCEPT ![a].streams[sname].consumers[name].state = n]
          /\ disk' = IF /\ jsa[a].streams[sname].Storage = FileStorage
                        /\ sname \in DOMAIN disk[a].sdirs
                        /\ name \in DOMAIN disk[a].sdirs[sname].obs
                     THEN [disk EXCEPT ![a].sdirs[sname].obs[name].state = n]
                     ELSE disk
    /\ UNCHANGED <<srvJs, srvCfg, exports, memReserved, storeReserved, accounts, ajs, pc, loc,
                   ret, issued, snap, pre, boots, ncorrupt, addCalls>>

-----------------------------------------------------------------------------
(* StreamTemplate.processInboundTemplateMsg: a message arrives on a        *)
(* subject of a template. addCalls[p] counts the AddStream calls the       *)
(* dispatch running in p has made.                                         *)

\* A subject with a token separator; its canonical name is NameAB.
SubjectAdotB == <<"a", ".", "b">>

\* Lines 1174-1182: the template's config under the canonical name.
TemplateStreamConfig(t, tname, cn) ==
    [Name |-> cn, Storage |-> t.Storage, Template |-> tname]

\* A cap check that admits one name too many.
atLimitOffByOne(t) == Len(t.streams) > t.MaxStreams

\* Line 1167: atLimit := len(t.streams) >= int(t.MaxStreams)
atLimit(t) == Len(t.streams) >= t.MaxStreams

\* Lines 1146-1160: under jsa.mu, a stream registered under the canonical name
\* ends the dispatch: the message is left to that stream's own subscription.
TemplateLookup(p, a, tname, subject) ==
    /\ pc[p] = "idle"
    /\ ~jsa[a].tmplNil
    /\ tname \in DOMAIN jsa[a].templates
    /\ LET cn == CanonicalName(subject)
       IN IF cn \in DOMAIN jsa[a].streams
          THEN Return(p, "dispatch", a, "exists")
          ELSE /\ Goto(p, "tm_cap")
               /\ loc' = [loc EXCEPT ![p] =
                             [NoLoc EXCEPT !.op = "dispatch", !.acct = a,
                                           !.tname = tname, !.subj = subject,
                                           !.cn = cn]]
               /\ UNCHANGED ret
    /\ UNCHANGED <<srvJs, srvCfg, exports, memReserved, storeReserved, accounts, jsa, ajs, disk,
                   issued, snap, pre, boots, ncorrupt, addCalls>>

\* Lines 1162-1177: under t.mu, the cap is checked and the name appended.
TemplateCap(p) ==
    /\ pc[p] = "tm_cap"
    /\ LET a == loc[p].acct
           t == jsa[a].templates[loc[p].tname]
       IN IF atLimit(t)
          THEN /\ Return(p, "dispatch", a, "at_limit")
               /\ UNCHANGED jsa
          ELSE /\ jsa' = [jsa EXCEPT ![a].templates[loc[p].tname].streams =
                                        Append(@, loc[p].cn)]
               /\ Goto(p, "tm_add")
               /\ UNCHANGED <<loc, ret>>
    /\ UNCHANGED <<srvJs, srvCfg, exports, memReserved, storeReserved, accounts, ajs, disk, issued,
                   snap, pre, boots, ncorrupt, addCalls>>

\* Lines 1179-1183: acc.AddStream(&cfg).
TemplateAddStream(p) ==
    /\ pc[p] = "tm_add"
    /\ LET a == loc[p].acct
           t == jsa[a].templates[loc[p].tname]
           r == AddStreamCall(a, jsa[a], TemplateStreamConfig(t, loc[p].tname, loc[p].cn))
       IN /\ jsa' = [jsa EXCEPT ![a] = r.j]
          /\ disk' = [disk EXCEPT ![a] = r.d]
          /\ loc' = [loc EXCEPT ![p].mset = IF r.err = "ok" THEN loc[p].cn ELSE EmptyName]
          /\ Goto(p, IF r.err = "ok" THEN "tm_deliver" ELSE "tm_validate")
    /\ addCalls' = [addCalls EXCEPT ![p] = @ + 1]
    /\ UNCHANGED <<srvJs, srvCfg, exports, memReserved, storeReserved, accounts, ajs, ret, issued,
                   snap, pre, boots, ncorrupt>>

\* func (a *Account) validateStreams: the names with a stream are kept.
validateStreams(j, tname) ==
    [j EXCEPT !.templates[tname].streams =
        SelectSeq(@, LAMBDA sname : sname \in DOMAIN j.streams)]

\* Lines 1183-1187: the failed AddStream is followed by validateStreams.
TemplateValidate(p) ==
    /\ pc[p] = "tm_validate"
    /\ jsa' = [jsa EXCEPT ![loc[p].acct] = validateStreams(@, loc[p].tname)]
    /\ Return(p, "dispatch", loc[p].acct, "add_failed")
    /\ UNCHANGED <<srvJs, srvCfg, exports, memReserved, storeReserved, accounts, ajs, disk, issued,
                   snap, pre, boots, ncorrupt, addCalls>>

\* Stream.processInboundJetStreamMsg: the stream ingests a message; the log
\* records whether it came by the re-delivery of a template dispatch or by the
\* stream's own subscription.
Ingest(j, sname, origin) ==
    IF sname \in DOMAIN j.streams /\ Len(j.streams[sname].msgs) < MaxIngest
    THEN [j EXCEPT !.streams[sname].msgs = Append(@, origin)]
    ELSE j

\* Line 1190: the message is handed to the new stream.
TemplateDeliver(p) ==
    /\ pc[p] = "tm_deliver"
    /\ jsa' = [jsa EXCEPT ![loc[p].acct] = Ingest(@, loc[p].mset, "redelivered")]
    /\ Return(p, "dispatch", loc[p].acct, "ok")
    /\ UNCHANGED <<srvJs, srvCfg, exports, memReserved, storeReserved, accounts, ajs, disk,
                   issued, snap, pre, boots, ncorrupt, addCalls>>

\* A message on subject reaches the stream that exists under the subject's
\* canonical name through the subscription the stream made in AddStream.
StreamIngest(a, subject) ==
    /\ ajs[a]
    /\ CanonicalName(subject) \in DOMAIN jsa[a].streams
    /\ Len(jsa[a].streams[CanonicalName(subject)].msgs) < MaxIngest
    /\ jsa' = [jsa EXCEPT ![a] = Ingest(@, CanonicalName(subject), "direct")]
    /\ UNCHANGED <<srvJs, srvCfg, exports, memReserved, storeReserved, accounts, ajs, disk, pc,
                   loc, ret, issued, snap, pre, boots, ncorrupt, addCalls>>

TemplateStep(p) ==
    \/ TemplateCap(p)
    \/ TemplateAddStream(p)
    \/ TemplateValidate(p)
    \/ TemplateDeliver(p)

-----------------------------------------------------------------------------
(* Account.DeleteStreamTemplate and StreamTemplate.Delete.                 *)

\* The names of t.streams that acc.LookupStream finds, in order.
LookupStreams(j, names) ==
    SelectSeq(names, LAMBDA n : n \in DOMAIN j.streams)

\* Stream.Delete: the stream leaves the account and its directory is removed.
DeleteStreamResult(j, d, name) ==
    [j |-> [j EXCEPT !.streams = MapRemove(@, name)],
     d |-> [d EXCEPT !.sdirs = MapRemove(@, name)]]

\* Lines 1282-1288 and 1224-1264: the template is looked up through a.js; in
\* StreamTemplate.Delete the internal client is taken for the deferred close,
\* the template leaves jsa.templates under jsa.mu, and the streams of t.streams
\* that exist are listed under t.mu.
TemplateDeleteBegin(p, a, tname) ==
    /\ pc[p] = "idle"
    /\ IF ~ajs[a]
       THEN /\ Return(p, "delete_template", a, "not_enabled_for_account")
            /\ UNCHANGED jsa
       ELSE IF jsa[a].tmplNil \/ tname \notin DOMAIN jsa[a].templates
       THEN /\ Return(p, "delete_template", a, "template_not_found")
            /\ UNCHANGED jsa
       ELSE /\ jsa' = [jsa EXCEPT ![a].templates = MapRemove(@, tname)]
            /\ loc' = [loc EXCEPT ![p] =
                    [NoLoc EXCEPT !.op = "delete_template", !.acct = a, !.tname = tname,
                                  !.keep = LookupStreams(jsa[a], jsa[a].templates[tname].streams)]]
            /\ Goto(p, "td_store")
            /\ UNCHANGED ret
    /\ UNCHANGED <<srvJs, srvCfg, exports, memReserved, storeReserved, accounts, ajs, disk,
                   issued, snap, pre, boots, ncorrupt, addCalls>>

\* Lines 1266-1270: jsa.store.Delete(t); when it fails the handler returns its
\* error at once.  issued records the call.
TemplateDeleteStore(p) ==
    /\ pc[p] = "td_store"
    /\ LET a == loc[p].acct
       IN /\ issued' = [issued EXCEPT ![a] = @ \cup {Call("store_delete", loc[p].tname, EmptyName)}]
          /\ \/ /\ disk' = [disk EXCEPT ![a].tdirs =
                              IF jsa[a].store = "file" THEN MapRemove(@, loc[p].tname) ELSE @]
                /\ Goto(p, "td_streams")
                /\ UNCHANGED <<loc, ret>>
             \/ /\ jsa[a].store = "file"
                /\ Return(p, "delete_template", a, "store_delete")
                /\ UNCHANGED disk
    /\ UNCHANGED <<srvJs, srvCfg, exports, memReserved, storeReserved, accounts, jsa, ajs,
                   snap, pre, boots, ncorrupt, addCalls>>

\* Lines 1272-1277: mset.Delete() of the next listed stream; a failure is kept
\* as lastErr and leaves the stream.  issued records the call.
TemplateDeleteStream(p) ==
    /\ pc[p] = "td_streams"
    /\ loc[p].keep # << >>
    /\ LET a == loc[p].acct
           name == Head(loc[p].keep)
           r == DeleteStreamResult(jsa[a], disk[a], name)
       IN /\ issued' = [issued EXCEPT ![a] = @ \cup {Call("stream_delete", name, EmptyName)}]
          /\ \/ /\ jsa' = [jsa EXCEPT ![a] = r.j]
                /\ disk' = [disk EXCEPT ![a] = r.d]
                /\ loc' = [loc EXCEPT ![p].keep = Tail(@)]
             \/ /\ loc' = [loc EXCEPT ![p].keep = Tail(@), ![p].lastErr = "stream_delete"]
                /\ UNCHANGED <<jsa, disk>>
    /\ UNCHANGED <<srvJs, srvCfg, exports, memReserved, storeReserved, accounts, ajs, pc, ret,
                   snap, pre, boots, ncorrupt, addCalls>>

\* Line 1279: lastErr is returned.
TemplateDeleteDone(p) ==
    /\ pc[p] = "td_streams"
    /\ loc[p].keep = << >>
    /\ Return(p, "delete_template", loc[p].acct, loc[p].lastErr)
    /\ UNCHANGED <<srvJs, srvCfg, exports, memReserved, storeReserved, accounts, jsa, ajs,
                   disk, issued, snap, pre, boots, ncorrupt, addCalls>>

TemplateDeleteStep(p) ==
    \/ TemplateDeleteStore(p)
    \/ TemplateDeleteStream(p)
    \/ TemplateDeleteDone(p)

-----------------------------------------------------------------------------
(* Restart of the server on the same store directory, and damage to the    *)
(* metafiles while it is down.                                             *)

\* The server process ends and another starts on the same store directory:
\* Server.EnableJetStream builds a control plane with an empty account set and a
\* zero ledger; the accounts are new objects. pre records what the accounts
\* exposed before.
Restart ==
    /\ boots < MaxBoots
    /\ \A p \in Procs : pc[p] = "idle"
    /\ accounts # {}
    /\ pre' = [a \in AllAccounts |->
                  [streams |-> StreamConfigs(jsa[a]),
                   templates |-> TemplateConfigs(jsa[a])]]
    /\ boots' = boots + 1
    /\ srvJs' = TRUE
    /\ UNCHANGED <<srvCfg, exports>>
    /\ memReserved' = 0
    /\ storeReserved' = 0
    /\ accounts' = {}
    /\ jsa' = [a \in AllAccounts |-> NewJsa(NoLimits)]
    /\ ajs' = [a \in AllAccounts |-> FALSE]
    /\ issued' = [a \in AllAccounts |-> {}]
    /\ snap' = [a \in AllAccounts |-> EmptyDisk]
    /\ UNCHANGED <<disk, pc, loc, ret, ncorrupt, addCalls>>

\* The server has restarted and account a is not yet enabled.
Down(a) ==
    /\ boots > 0
    /\ a \notin accounts
    /\ \A p \in Procs : pc[p] = "idle"

\* A stream snapshot that was interrupted by the stop of the server leaves the
\* account's snapshots directory behind.
SnapshotLeft(a) ==
    /\ Down(a)
    /\ disk[a].sdir
    /\ ~disk[a].snaps
    /\ disk' = [disk EXCEPT ![a].snaps = TRUE]
    /\ UNCHANGED <<srvJs, srvCfg, exports, memReserved, storeReserved, accounts, jsa, ajs, pc, loc,
                   ret, issued, snap, pre, boots, ncorrupt, addCalls>>

\* A damaged metafile pair: one byte of meta.inf changed with meta.sum left as it
\* was, meta.sum removed, meta.inf removed, or meta.inf overwritten by bytes that
\* are no JSON object together with their checksum.
Damaged(f, key, kind, i) ==
    CASE kind = "byte" ->
            [f EXCEPT !.inf[i] = IF @ < MaxByte THEN @ + 1 ELSE @ - 1]
      [] kind = "nosum" -> [f EXCEPT !.sum = NoFile]
      [] kind = "noinf" -> [f EXCEPT !.inf = NoFile]
      [] kind = "garbled" ->
            [f EXCEPT !.inf = [f.inf EXCEPT ![1] = 0],
                      !.sum = HexEncode(HighwayHash64(key, [f.inf EXCEPT ![1] = 0]))]

DamageKinds == {"byte", "nosum", "noinf", "garbled"}

CanDamage(f, kind, i) ==
    /\ ncorrupt < MaxCorrupt
    /\ f.inf # NoFile
    /\ i \in DOMAIN f.inf
    /\ kind = "nosum" => f.sum # NoFile
    /\ kind # "byte" => i = 1

CorruptTemplate(a, dir, kind, i) ==
    /\ Down(a)
    /\ dir \in DOMAIN disk[a].tdirs
    /\ CanDamage(disk[a].tdirs[dir], kind, i)
    /\ disk' = [disk EXCEPT ![a].tdirs[dir] = Damaged(@, TemplatesKey, kind, i)]
    /\ ncorrupt' = ncorrupt + 1
    /\ UNCHANGED <<srvJs, srvCfg, exports, memReserved, storeReserved, accounts, jsa, ajs, pc, loc,
                   ret, issued, snap, pre, boots, addCalls>>

CorruptStream(a, dir, kind, i) ==
    /\ Down(a)
    /\ dir \in DOMAIN disk[a].sdirs
    /\ CanDamage(disk[a].sdirs[dir], kind, i)
    /\ disk' = [disk EXCEPT ![a].sdirs[dir] = Damaged(@, Sha256(dir), kind, i)]
    /\ ncorrupt' = ncorrupt + 1
    /\ UNCHANGED <<srvJs, srvCfg, exports, memReserved, storeReserved, accounts, jsa, ajs, pc, loc,
                   ret, issued, snap, pre, boots, addCalls>>

CorruptConsumer(a, dir, odir, kind, i) ==
    /\ Down(a)
    /\ dir \in DOMAIN disk[a].sdirs
    /\ odir \in DOMAIN disk[a].sdirs[dir].obs
    /\ CanDamage(disk[a].sdirs[dir].obs[odir], kind, i)
    /\ disk' = [disk EXCEPT ![a].sdirs[dir].obs[odir] = Damaged(@, Sha256(odir), kind, i)]
    /\ ncorrupt' = ncorrupt + 1
    /\ UNCHANGED <<srvJs, srvCfg, exports, memReserved, storeReserved, accounts, jsa, ajs, pc, loc,
                   ret, issued, snap, pre, boots, addCalls>>

-----------------------------------------------------------------------------
(* The ledger under sequential use: one caller enables, updates and        *)
(* disables accounts, adds a stream and a template to an enabled account,  *)
(* and the storage engine reports usage.                                   *)

Caller == "p1"

\* The account whose streams, templates and consumers are followed.
Owner == "A1"

StreamS == [Name |-> NameS, Storage |-> FileStorage, Template |-> EmptyName]

TemplateT == [Name |-> NameT, Storage |-> FileStorage, MaxStreams |-> 1]

Init == InitState

Next ==
    \/ \E a \in AllAccounts, l \in LimitChoices : EnableBegin(Caller, a, l)
    \/ EnableStep(Caller)
    \/ \E a \in Accounts, l \in LimitChoices : UpdateBegin(Caller, a, l)
    \/ UpdateStep(Caller)
    \/ \E a \in Accounts : DisableBegin(Caller, a)
    \/ DisableStep(Caller)
    \/ \E d \in {-1, 1} : updateUsage(Caller, Owner, FileStorage, d)
    \/ AddStream(Caller, Owner, StreamS)
    \/ AddStreamTemplate(Caller, Owner, TemplateT)
    \/ AddConsumer(Caller, Owner, NameS, NameX, TRUE)
    \/ Finish(Caller)

Spec == Init /\ [][Next]_vars

-----------------------------------------------------------------------------
(* Template dispatch under concurrency: the messaging server delivers      *)
(* messages on the template's subjects from several connections at once,   *)
(* while a client adds a stream of its own.                                *)

TemplateOwnerLimits == Limits(-1, -1, MaxTemplateStreams, -1)

TemplateM == [Name |-> NameT, Storage |-> MemoryStorage, MaxStreams |-> MaxTemplateStreams]

StreamM == [Name |-> NameS, Storage |-> MemoryStorage, Template |-> EmptyName]

TemplateSubjects == {SubjectAdotB, NameAB, NameC}

\* The steps of Account.EnableJetStream over a store that holds no metafile:
\* the walks of the templates and streams directories find no entry.
EnableFreshStep(p) ==
    \/ EnableReserve(p)
    \/ EnableStamp(p)
    \/ EnableMkdir(p)
    \/ RecoverStreamsBegin(p)
    \/ EnableDone(p)

InitTemplate == InitState

NextTemplate ==
    \/ EnableBegin(Caller, Owner, TemplateOwnerLimits)
    \/ EnableFreshStep(Caller)
    \/ AddStreamTemplate(Caller, Owner, TemplateM)
    \/ AddStream(Caller, Owner, StreamM)
    \/ \E p \in Procs, subject \in TemplateSubjects : TemplateLookup(p, Owner, NameT, subject)
    \/ \E p \in Procs : TemplateStep(p)
    \/ \E p \in Procs : Finish(p)

SpecTemplate == InitTemplate /\ [][NextTemplate]_vars

-----------------------------------------------------------------------------
(* Recovery: a clean run creates templates, streams and consumers on the   *)
(* owner account, the server restarts, metafiles may be damaged while it   *)
(* is down, and the account is enabled again.                              *)

RecoveryLimits == Limits(1, 1, -1, -1)

TemplateMem == [Name |-> NameU, Storage |-> MemoryStorage, MaxStreams |-> 1]

InitRecovery == InitState

\* The account's limits set no cap on streams, so no AddStream of a dispatch
\* fails and validateStreams is not reached.
NextRecovery ==
    \/ EnableBegin(Caller, Owner, RecoveryLimits)
    \/ EnableStep(Caller)
    \/ boots = 0 /\ \E tc \in {TemplateT, TemplateMem} : AddStreamTemplate(Caller, Owner, tc)
    \/ boots = 0 /\ AddStream(Caller, Owner, StreamS)
    \/ boots = 0 /\ TemplateLookup(Caller, Owner, NameT, SubjectAdotB)
    \/ TemplateCap(Caller)
    \/ TemplateAddStream(Caller)
    \/ TemplateDeliver(Caller)
    \/ boots = 0 /\ \E name \in {NameX, NameY} : AddConsumer(Caller, Owner, NameS, name, name = NameX)
    \/ boots = 0 /\ pc[Caller] = "idle" /\ \E name \in {NameX, NameY} : ConsumerDeliver(Owner, NameS, name)
    \/ Restart
    \/ \E dir \in {NameT, NameU}, kind \in DamageKinds, i \in 1..4 :
          CorruptTemplate(Owner, dir, kind, i)
    \/ \E dir \in {NameS, NameAB}, kind \in DamageKinds, i \in 1..4 :
          CorruptStream(Owner, dir, kind, i)
    \/ \E odir \in {NameX, NameY}, kind \in DamageKinds, i \in 1..2 :
          CorruptConsumer(Owner, NameS, odir, kind, i)
    \/ SnapshotLeft(Owner)
    \/ Finish(Caller)

SpecRecovery == InitRecovery /\ [][NextRecovery]_vars

-----------------------------------------------------------------------------
(* Disable and enable again: the owner account gets templates, streams and *)
(* consumers, is disabled, and is enabled again on the same store.         *)

InitReenable == InitState

NextReenable ==
    \/ EnableBegin(Caller, Owner, RecoveryLimits)
    \/ EnableStep(Caller)
    \/ \E tc \in {TemplateT, TemplateMem} : AddStreamTemplate(Caller, Owner, tc)
    \/ AddStream(Caller, Owner, StreamS)
    \/ TemplateLookup(Caller, Owner, NameT, SubjectAdotB)
    \/ TemplateCap(Caller)
    \/ TemplateAddStream(Caller)
    \/ TemplateDeliver(Caller)
    \/ \E name \in {NameX, NameY} : AddConsumer(Caller, Owner, NameS, name, name = NameX)
    \/ DisableBegin(Caller, Owner)
    \/ DisableStep(Caller)
    \/ Finish(Caller)

SpecReenable == InitReenable /\ [][NextReenable]_vars

-----------------------------------------------------------------------------
(* Deleting a template: the owner account gets a file template, messages   *)
(* on its subjects create its streams, and the template is deleted; the    *)
(* store and the streams may fail to delete.                               *)

TemplateF == [Name |-> NameT, Storage |-> FileStorage, MaxStreams |-> MaxTemplateStreams]

InitDelete == InitState

NextDelete ==
    \/ EnableBegin(Caller, Owner, RecoveryLimits)
    \/ EnableFreshStep(Caller)
    \/ AddStreamTemplate(Caller, Owner, TemplateF)
    \/ \E subject \in TemplateSubjects : TemplateLookup(Caller, Owner, NameT, subject)
    \/ TemplateCap(Caller)
    \/ TemplateAddStream(Caller)
    \/ TemplateDeliver(Caller)
    \/ TemplateDeleteBegin(Caller, Owner, NameT)
    \/ TemplateDeleteStep(Caller)
    \/ Finish(Caller)

SpecDelete == InitDelete /\ [][NextDelete]_vars

-----------------------------------------------------------------------------
(* Admission under concurrency: several callers enable accounts at once.   *)

AdmissionLimits ==
    {Limits(MaxLimit, MaxLimit, -1, -1), Limits(1, -1, -1, -1), dynamicAccountLimits}

InitAdmission == InitState

NextAdmission ==
    \/ \E p \in Procs, a \in AllAccounts, l \in AdmissionLimits : EnableBegin(p, a, l)
    \/ \E p \in Procs : EnableFreshStep(p)
    \/ \E p \in Procs : Finish(p)

SpecAdmission == InitAdmission /\ [][NextAdmission]_vars

-----------------------------------------------------------------------------
(* The life cycle of the server's JetStream under sequential use: one      *)
(* caller enables the server, enables, updates and disables accounts and   *)
(* shuts JetStream down, any number of times.                              *)

NoConfig == [MaxMemory |-> 0, MaxStore |-> 0, StoreDir |-> EmptyPath]

\* The state after construction of a server whose JetStream was never enabled.
InitCold ==
    /\ srvJs = FALSE
    /\ srvCfg = NoConfig
    /\ exports = {}
    /\ memReserved = 0
    /\ storeReserved = 0
    /\ accounts = {}
    /\ jsa = [a \in AllAccounts |-> NewJsa(NoLimits)]
    /\ ajs = [a \in AllAccounts |-> FALSE]
    /\ disk = [a \in AllAccounts |-> EmptyDisk]
    /\ pc = [p \in Procs |-> "idle"]
    /\ loc = [p \in Procs |-> NoLoc]
    /\ ret = [p \in Procs |-> NoRet]
    /\ issued = [a \in AllAccounts |-> {}]
    /\ snap = [a \in AllAccounts |-> EmptyDisk]
    /\ pre = [a \in AllAccounts |-> [streams |-> EmptyMap, templates |-> EmptyMap]]
    /\ boots = 0
    /\ ncorrupt = 0
    /\ addCalls = [p \in Procs |-> 0]

InitServer == InitCold

NextServer ==
    \/ ServerEnableBegin(Caller, ConfiguredJetStream, 0, 0)
    \/ ServerEnableDir(Caller)
    \/ ServerEnableExport(Caller)
    \/ ServerEnableSnapshot(Caller)
    \/ ServerConfigAccount(Caller)
    \/ ServerDisableLookup(Caller)
    \/ ShutdownBegin(Caller)
    \/ ShutdownStep(Caller)
    \/ \E a \in AllAccounts, l \in AdmissionLimits : EnableBegin(Caller, a, l)
    \/ EnableFreshStep(Caller)
    \/ \E a \in Accounts, l \in AdmissionLimits : UpdateBegin(Caller, a, l)
    \/ UpdateStep(Caller)
    \/ \E a \in Accounts : DisableBegin(Caller, a)
    \/ DisableStep(Caller)
    \/ Finish(Caller)

SpecServer == InitServer /\ [][NextServer]_vars

-----------------------------------------------------------------------------
(* Start-up under concurrency: one goroutine enables the server's          *)
(* JetStream while a second enables the owner account.                     *)

Enabler == "p2"

Updater == "p3"

LifecycleLimits == {Limits(MaxLimit, MaxLimit, -1, -1), Limits(1, -1, -1, -1)}

InitBoot == InitCold

NextBoot ==
    \/ ServerEnableBegin(Caller, ConfiguredJetStream, 0, 0)
    \/ ServerEnableDir(Caller)
    \/ ServerEnableExport(Caller)
    \/ ServerEnableSnapshot(Caller)
    \/ ServerConfigAccount(Caller)
    \/ ServerDisableLookup(Caller)
    \/ ServerDisableLedger(Caller)
    \/ ServerDisableDelete(Caller)
    \/ \E l \in LifecycleLimits : EnableBegin(Enabler, Owner, l)
    \/ EnableFreshStep(Enabler)
    \/ \E p \in Procs : Finish(p)

SpecBoot == InitBoot /\ [][NextBoot]_vars

-----------------------------------------------------------------------------
(* The effective configuration: a server that was never enabled is enabled *)
(* with a nil config or with one that supplies some of its fields, on a    *)
(* machine whose memory is detected or not, and is shut down again.        *)

\* The configs a caller hands to Server.EnableJetStream: nil, or each field
\* supplied or left at its zero value.
ConfigInputs ==
    {NilConfig} \cup
    {JetStreamConfig(mm, ms, d) : mm \in {0, CfgMaxMemory}, ms \in {-1, CfgMaxStore},
                                  d \in {EmptyPath, <<"data">>}}

\* What sysmem.Memory() reports (0 when it cannot tell) and what
\* diskAvailable reports for the store directory.
SysMemInputs == {0, 8}

AvailInputs == {4, 5}

InitConfig == InitCold

NextConfig ==
    \/ \E config \in ConfigInputs, sysMem \in SysMemInputs, avail \in AvailInputs :
          ServerEnableBegin(Caller, config, sysMem, avail)
    \/ ServerEnableDir(Caller)
    \/ ServerEnableExport(Caller)
    \/ ServerEnableSnapshot(Caller)
    \/ ServerConfigAccount(Caller)
    \/ ShutdownBegin(Caller)
    \/ ShutdownCollect(Caller)
    \/ ShutdownNil(Caller)
    \/ ShutdownAccounts(Caller)
    \/ Finish(Caller)

SpecConfig == InitConfig /\ [][NextConfig]_vars

-----------------------------------------------------------------------------
(* Dispatch during recovery: the owner account, enabled with its store    *)
(* directory made, gets a file-backed template of one stream, the server   *)
(* restarts, and while the account is enabled again a second goroutine     *)
(* handles the messages that arrive on the template's subjects.            *)

Dispatcher == "p2"

DispatchSubjects == {SubjectAdotB, NameC}

InitCap == InitState

NextCap ==
    \/ EnableBegin(Caller, Owner, RecoveryLimits)
    \/ EnableReserve(Caller)
    \/ EnableStamp(Caller)
    \/ EnableMkdir(Caller)
    \/ RecoverTemplate(Caller)
    \/ RecoverStreamsBegin(Caller)
    \/ RecoverStream(Caller)
    \/ RecoverStreamAdd(Caller)
    \/ RecoverConsumersEnd(Caller)
    \/ EnableDone(Caller)
    \/ boots = 0 /\ disk[Owner].sdir /\ AddStreamTemplate(Caller, Owner, TemplateT)
    \/ \E subject \in DispatchSubjects : TemplateLookup(Dispatcher, Owner, NameT, subject)
    \/ TemplateStep(Dispatcher)
    \/ Restart
    \/ \E p \in {Caller, Dispatcher} : Finish(p)

SpecCap == InitCap /\ [][NextCap]_vars

-----------------------------------------------------------------------------
(* The life cycle under concurrency: on a running server one goroutine     *)
(* shuts JetStream down, a second enables and disables the owner account,  *)
(* a third updates its limits.                                             *)

InitLifecycle == InitState

\* The calls are followed until a ledger counter has gone below zero; from then
\* on the calls in flight complete and no further call begins.
LedgerInRange == memReserved >= 0 /\ storeReserved >= 0

\* Account.EnableJetStream is running.
Enabling == loc[Enabler].op = "enable"

\* The owner account is enabled while no other call runs; DisableJetStream,
\* shutdownJetStream and UpdateJetStreamLimits then run concurrently.
NextLifecycle ==
    \/ /\ LedgerInRange
       /\ \A p \in Procs : pc[p] = "idle"
       /\ \E l \in LifecycleLimits : EnableBegin(Enabler, Owner, l)
    \/ EnableFreshStep(Enabler)
    \/ LedgerInRange /\ ~Enabling /\ ShutdownBegin(Caller)
    \/ ShutdownStep(Caller)
    \/ LedgerInRange /\ DisableBegin(Enabler, Owner)
    \/ DisableStep(Enabler)
    \/ LedgerInRange /\ ~Enabling /\ \E l \in LifecycleLimits : UpdateBegin(Updater, Owner, l)
    \/ UpdateStep(Updater)
    \/ \E p \in Procs : Finish(p)

SpecLifecycle == InitLifecycle /\ [][NextLifecycle]_vars

-----------------------------------------------------------------------------
(* Enable against shutdown: one goroutine enables and disables the owner   *)
(* account while another shuts the server's JetStream down; the server is  *)
(* enabled again once both are idle.                                       *)

InitRace == InitState

NextRace ==
    \/ \E l \in LifecycleLimits : EnableBegin(Enabler, Owner, l)
    \/ EnableFreshStep(Enabler)
    \/ DisableBegin(Enabler, Owner)
    \/ DisableStep(Enabler)
    \/ ShutdownBegin(Caller)
    \/ ShutdownStep(Caller)
    \/ ServerEnableBegin(Caller, ConfiguredJetStream, 0, 0)
    \/ ServerEnableDir(Caller)
    \/ ServerEnableExport(Caller)
    \/ ServerEnableSnapshot(Caller)
    \/ ServerConfigAccount(Caller)
    \/ ServerDisableLookup(Caller)
    \/ \E p \in Procs : Finish(p)

SpecRace == InitRace /\ [][NextRace]_vars

-----------------------------------------------------------------------------
(* The locks.  Every operation is followed through the Lock, RLock and     *)
(* Unlock calls it makes, in the order of its code, on one server, one     *)
(* account and one template.  held is the sequence of the locks a          *)
(* goroutine holds, in the order it took them.                             *)

Locks == <<"s.mu", "js.mu", "a.mu", "jsa.mu", "t.mu">>

\* The place of a lock in the hierarchy: 1 for server.mu down to 5 for t.mu.
LockRank(l) == CHOOSE i \in 1..Len(Locks) : Locks[i] = l

Lock(l) == [act |-> "lock", lock |-> l, mode |-> "w"]
RLock(l) == [act |-> "lock", lock |-> l, mode |-> "r"]
Unlock(l) == [act |-> "unlock", lock |-> l, mode |-> "w"]
RUnlock(l) == [act |-> "unlock", lock |-> l, mode |-> "r"]

\* Lines 398-403.
getJetStreamLocks == <<Lock("s.mu"), Unlock("s.mu")>>

\* Lines 682-690: a.mu is read-locked and released, then jsa.mu is held to the end.
LookupStreamLocks == <<RLock("a.mu"), RUnlock("a.mu"), Lock("jsa.mu"), Unlock("jsa.mu")>>

\* Lines 1213-1221: t.mu is held across the a.LookupStream of a name of t.streams.
validateStreamsLocks == <<Lock("t.mu")>> \o LookupStreamLocks \o <<Unlock("t.mu")>>

\* Lines 801-806 and 897-906: js.disableJetStream and jsa.delete.
disableJetStreamLocks ==
    <<Lock("js.mu"), Unlock("js.mu"), Lock("jsa.mu"), Unlock("jsa.mu")>>

LockOps == {"enable", "update", "disable", "shutdown", "server_enable", "dispatch",
            "delete_template", "recover_stream"}

\* The lock calls of each operation, in program order.
LockScript(op) ==
    CASE op = "enable" ->                      \* lines 408-447
            <<RLock("a.mu"), RUnlock("a.mu")>> \o getJetStreamLocks \o
            <<Lock("js.mu"), Unlock("js.mu"), Lock("a.mu"), Unlock("a.mu")>>
      [] op = "update" ->                      \* lines 701-741
            <<RLock("a.mu"), RUnlock("a.mu"), Lock("jsa.mu"), Unlock("jsa.mu"),
              Lock("js.mu"), Unlock("js.mu"), Lock("jsa.mu"), Unlock("jsa.mu")>>
      [] op = "disable" ->                     \* lines 773-792, 919-921
            <<Lock("a.mu"), Unlock("a.mu")>> \o getJetStreamLocks \o
            <<RLock("js.mu"), RUnlock("js.mu")>> \o disableJetStreamLocks
      [] op = "shutdown" ->                    \* lines 312-351
            <<Lock("s.mu"), Unlock("s.mu"), RLock("js.mu"), RUnlock("js.mu")>> \o
            disableJetStreamLocks \o
            <<Lock("s.mu"), Unlock("s.mu"), Lock("js.mu"), Unlock("js.mu")>>
      [] op = "server_enable" ->               \* lines 93-116, 277-291
            <<Lock("s.mu"), Unlock("s.mu"), Lock("s.mu"), Unlock("s.mu")>>
      [] op = "dispatch" ->                    \* lines 1153-1185
            <<Lock("jsa.mu"), Unlock("jsa.mu"), Lock("t.mu"), Unlock("t.mu")>> \o
            validateStreamsLocks
      [] op = "delete_template" ->             \* lines 1229-1265
            <<Lock("t.mu"), Unlock("t.mu"), Lock("jsa.mu"), Unlock("jsa.mu"),
              Lock("t.mu")>> \o LookupStreamLocks \o <<Unlock("t.mu")>>
      [] op = "recover_stream" ->              \* lines 557-561, 1317-1319
            <<Lock("t.mu"), Unlock("t.mu")>>

\* The goroutines that hold lock l in mode m.
Holders(l, m) ==
    {q \in Procs : \E i \in DOMAIN loc[q].held :
                      loc[q].held[i].lock = l /\ loc[q].held[i].mode = m}

\* sync.RWMutex: a writer needs the lock free, a reader needs it free of writers.
Available(e) ==
    /\ Holders(e.lock, "w") = {}
    /\ e.mode = "w" => Holders(e.lock, "r") = {}

\* A goroutine begins an operation.
LockBegin(p, op) ==
    /\ pc[p] = "idle"
    /\ pc' = [pc EXCEPT ![p] = "locks"]
    /\ loc' = [loc EXCEPT ![p] = [NoLoc EXCEPT !.op = op, !.script = LockScript(op)]]
    /\ UNCHANGED <<srvJs, srvCfg, exports, memReserved, storeReserved, accounts, jsa, ajs, disk,
                   ret, issued, snap, pre, boots, ncorrupt, addCalls>>

\* mu.Lock() or mu.RLock() returns once the lock can be taken.
LockAcquire(p) ==
    /\ pc[p] = "locks"
    /\ loc[p].script # << >>
    /\ Head(loc[p].script).act = "lock"
    /\ Available(Head(loc[p].script))
    /\ loc' = [loc EXCEPT ![p].held = Append(@, Head(loc[p].script)),
                          ![p].script = Tail(@)]
    /\ UNCHANGED <<srvJs, srvCfg, exports, memReserved, storeReserved, accounts, jsa, ajs, disk,
                   pc, ret, issued, snap, pre, boots, ncorrupt, addCalls>>

\* mu.Unlock() or mu.RUnlock().
LockRelease(p) ==
    /\ pc[p] = "locks"
    /\ loc[p].script # << >>
    /\ Head(loc[p].script).act = "unlock"
    /\ loc' = [loc EXCEPT ![p].held =
                              SelectSeq(@, LAMBDA h : h.lock # Head(loc[p].script).lock),
                          ![p].script = Tail(@)]
    /\ UNCHANGED <<srvJs, srvCfg, exports, memReserved, storeReserved, accounts, jsa, ajs, disk,
                   pc, ret, issued, snap, pre, boots, ncorrupt, addCalls>>

\* The operation returns.
LockEnd(p) ==
    /\ pc[p] = "locks"
    /\ loc[p].script = << >>
    /\ Return(p, loc[p].op, "none", "ok")
    /\ UNCHANGED <<srvJs, srvCfg, exports, memReserved, storeReserved, accounts, jsa, ajs, disk,
                   issued, snap, pre, boots, ncorrupt, addCalls>>

InitLocks == InitState

\* Two goroutines run the operations, each any operation at any time.
NextLocks ==
    \/ \E p \in {Caller, Dispatcher}, op \in LockOps : LockBegin(p, op)
    \/ \E p \in Procs : LockAcquire(p)
    \/ \E p \in Procs : LockRelease(p)
    \/ \E p \in Procs : LockEnd(p)
    \/ \E p \in Procs : Finish(p)

SpecLocks == InitLocks /\ [][NextLocks]_vars

-----------------------------------------------------------------------------
(* Ingest at materialization: a goroutine dispatches template messages     *)
(* while messages of other connections reach the streams that exist        *)
(* through the streams' own subscriptions.                                 *)

InitIngest == InitState

NextIngest ==
    \/ EnableBegin(Caller, Owner, RecoveryLimits)
    \/ EnableFreshStep(Caller)
    \/ disk[Owner].sdir /\ AddStreamTemplate(Caller, Owner, TemplateF)
    \/ \E subject \in DispatchSubjects : TemplateLookup(Dispatcher, Owner, NameT, subject)
    \/ TemplateCap(Dispatcher)
    \/ TemplateAddStream(Dispatcher)
    \/ TemplateDeliver(Dispatcher)
    \/ \E subject \in DispatchSubjects : StreamIngest(Owner, subject)
    \/ \E p \in {Caller, Dispatcher} : Finish(p)

SpecIngest == InitIngest /\ [][NextIngest]_vars

-----------------------------------------------------------------------------
(* The ledger against the limits of the enabled accounts.                  *)

\* No handler is running: every operation begun has completed.
Quiescent == \A p \in Procs : pc[p] \in {"idle", "ret"}

RECURSIVE SumOver(_, _)
SumOver(S, f) ==
    IF S = {} THEN 0
    ELSE LET a == CHOOSE x \in S : TRUE
         IN f[a] + SumOver(S \ {a}, f)

Pos(x) == IF x > 0 THEN x ELSE 0

\* C1 as stated: once the enable, update and disable operations begun have
\* completed, the ledger's counters equal the sums of limits.max_memory and
\* limits.max_store over the enabled accounts.
C1_ReservedEqualsLimitSum ==
    Quiescent =>
        /\ memReserved = SumOver(accounts, [a \in AllAccounts |-> jsa[a].limits.MaxMemory])
        /\ storeReserved = SumOver(accounts, [a \in AllAccounts |-> jsa[a].limits.MaxStore])

\* C1 amended: once the enable, update and disable operations begun have
\* completed, the ledger's counters equal the sums, over the enabled accounts,
\* of the positive limits: a limit that is zero or negative reserves nothing.
C1_ReservedEqualsPositiveLimitSum ==
    Quiescent =>
        /\ memReserved =
              SumOver(accounts, [a \in AllAccounts |-> Pos(jsa[a].limits.MaxMemory)])
        /\ storeReserved =
              SumOver(accounts, [a \in AllAccounts |-> Pos(jsa[a].limits.MaxStore)])

\* Both accounts are enabled after an update has completed, one of them with a
\* negative memory limit, and the ledger holds a reservation.
C1_Witness ==
    /\ accounts = Accounts
    /\ pc[Caller] = "ret" /\ ret[Caller].op = "update" /\ ret[Caller].err = "ok"
    /\ \E a \in accounts : jsa[a].limits.MaxMemory < 0
    /\ memReserved > 0 /\ storeReserved > 0

\* p takes the step of UpdateJetStreamLimits that holds js.mu.
AtUpdateLedger(p) == pc[p] = "upd_ledger" /\ pc'[p] # "upd_ledger"

\* C9 as stated: an update to new of an account whose limits are old succeeds
\* exactly when the deltas fit, and then the ledger holds, in one step, its
\* previous value minus old plus new; the account's limits become new.
C9_UpdateReplacesOldByNew ==
    [][\A p \in Procs :
        LET a == loc[p].acct
            old == jsa[a].limits
            new == loc[p].limits
            fits == /\ memReserved + (new.MaxMemory - old.MaxMemory) <= CfgMaxMemory
                    /\ storeReserved + (new.MaxStore - old.MaxStore) <= CfgMaxStore
        IN /\ AtUpdateLedger(p) =>
                /\ (pc'[p] = "upd_write") <=> fits
                /\ pc'[p] = "upd_write" =>
                      /\ memReserved' = memReserved - old.MaxMemory + new.MaxMemory
                      /\ storeReserved' = storeReserved - old.MaxStore + new.MaxStore
           /\ pc[p] = "upd_write" /\ pc'[p] = "ret" =>
                /\ ret'[p].err = "ok"
                /\ jsa'[a].limits = new
      ]_vars

\* C9 amended: an update to new of an account whose limits are old succeeds
\* exactly when the deltas fit, and then the ledger holds, in one step, its
\* previous value minus the positive part of old plus the positive part of new;
\* the account's limits become new.
C9_UpdateReplacesPositiveOldByNew ==
    [][\A p \in Procs :
        LET a == loc[p].acct
            old == jsa[a].limits
            new == loc[p].limits
            fits == /\ memReserved + (new.MaxMemory - old.MaxMemory) <= CfgMaxMemory
                    /\ storeReserved + (new.MaxStore - old.MaxStore) <= CfgMaxStore
        IN /\ AtUpdateLedger(p) =>
                /\ (pc'[p] = "upd_write") <=> fits
                /\ pc'[p] = "upd_write" =>
                      /\ memReserved' = memReserved - Pos(old.MaxMemory) + Pos(new.MaxMemory)
                      /\ storeReserved' = storeReserved - Pos(old.MaxStore) + Pos(new.MaxStore)
           /\ pc[p] = "upd_write" /\ pc'[p] = "ret" =>
                /\ ret'[p].err = "ok"
                /\ jsa'[a].limits = new
      ]_vars

\* An update that raises the memory limit and lowers the store limit of an
\* enabled account, another account holding a reservation too, has passed the
\* ledger.
C9_Witness ==
    \E p \in Procs :
        /\ pc[p] = "upd_write"
        /\ loc[p].old.MaxMemory > 0
        /\ loc[p].limits.MaxMemory > loc[p].old.MaxMemory
        /\ loc[p].limits.MaxStore < loc[p].old.MaxStore
        /\ accounts = Accounts

\* p takes a step of UpdateJetStreamLimits.
UpdateStepOf(p) ==
    \/ pc[p] = "idle" /\ (pc'[p] = "upd_ledger" \/ (pc'[p] = "ret" /\ ret'[p].op = "update"))
    \/ pc[p] \in {"upd_ledger", "upd_write"} /\ pc'[p] # pc[p]

\* C10: no step of UpdateJetStreamLimits changes the memUsed, storeUsed, streams
\* or templates of any account, whether the update succeeds or fails; a step that
\* rejects the update for insufficient resources leaves the ledger's counters and
\* every account's limits as they were.
C10_UpdateFrame ==
    [][\A p \in Procs :
        /\ UpdateStepOf(p) =>
              \A a \in AllAccounts :
                  /\ jsa'[a].memUsed = jsa[a].memUsed
                  /\ jsa'[a].storeUsed = jsa[a].storeUsed
                  /\ jsa'[a].streams = jsa[a].streams
                  /\ jsa'[a].templates = jsa[a].templates
                  /\ jsa'[a].tmplNil = jsa[a].tmplNil
        /\ AtUpdateLedger(p) /\ pc'[p] = "ret" =>
              /\ ret'[p].err \in {"insufficient_memory", "insufficient_store"}
              /\ memReserved' = memReserved
              /\ storeReserved' = storeReserved
              /\ \A a \in AllAccounts : jsa'[a].limits = jsa[a].limits
      ]_vars

\* An update of an account that owns a stream, a template and usage has been
\* rejected for insufficient resources.
C10_Witness ==
    \E p \in Procs :
        /\ pc[p] = "ret" /\ ret[p].op = "update"
        /\ ret[p].err \in {"insufficient_memory", "insufficient_store"}
        /\ jsa[ret[p].acct].storeUsed > 0
        /\ DOMAIN jsa[ret[p].acct].streams # {}
        /\ DOMAIN jsa[ret[p].acct].templates # {}

\* C2: in every state reached by concurrent Account.EnableJetStream calls, the
\* ledger's mem_reserved is at most the server's max_memory and its
\* store_reserved at most max_store; and a call reserves in the very step in
\* which its limits are found to fit the ledger.
C2_AdmissionSafety ==
    /\ [](memReserved <= CfgMaxMemory /\ storeReserved <= CfgMaxStore)
    /\ [][\A p \in Procs :
            pc[p] = "en_reserve" /\ pc'[p] = "en_stamp" =>
                /\ memReserved + loc[p].limits.MaxMemory <= CfgMaxMemory
                /\ storeReserved + loc[p].limits.MaxStore <= CfgMaxStore
                /\ memReserved' = memReserved + Pos(loc[p].limits.MaxMemory)
                /\ storeReserved' = storeReserved + Pos(loc[p].limits.MaxStore)
         ]_vars

\* Two calls that were in flight together have been through admission with
\* limits that do not fit together: one reserved, the other was refused.
C2_Witness ==
    \E p, q \in Procs :
        /\ p # q
        /\ pc[p] \in {"en_stamp", "en_mkdir"}
        /\ loc[p].limits.MaxMemory = MaxLimit
        /\ pc[q] = "ret" /\ ret[q].op = "enable"
        /\ ret[q].err = "insufficient_memory"
        /\ memReserved = MaxLimit

\* p and q run dispatches of messages that resolve to the same canonical name.
SameNameDispatches(p, q) ==
    /\ p # q
    /\ loc[p].op = "dispatch" /\ loc[q].op = "dispatch"
    /\ loc[p].acct = loc[q].acct
    /\ loc[p].cn = loc[q].cn

\* C3: two dispatches in flight together, both arrived before the stream of
\* their common canonical name existed, make between them at most one AddStream
\* call for that name.
C3_OneAddStreamPerName ==
    \A p, q \in Procs :
        SameNameDispatches(p, q) => addCalls[p] + addCalls[q] <= 1

\* p takes the cap-check step of a dispatch with the template's list full.
AtFullCap(p) ==
    /\ pc[p] = "tm_cap"
    /\ pc'[p] # "tm_cap"
    /\ Len(jsa[loc[p].acct].templates[loc[p].tname].streams)
          >= jsa[loc[p].acct].templates[loc[p].tname].MaxStreams

\* p takes the first step of a dispatch whose canonical name is a stream.
AtExistingStream(p) ==
    /\ pc[p] = "idle"
    /\ pc'[p] = "ret"
    /\ ret'[p].op = "dispatch"

\* C4: a dispatch that finds the template's list holding max_streams names ends
\* there: it makes no AddStream call, adds no stream and no name, and returns
\* without an error to the publisher; a dispatch whose canonical name is an
\* existing stream ends at once and leaves the stream as it is, the list being
\* full or not.
C4_TemplateCap ==
    [][\A p \in Procs :
        /\ AtFullCap(p) =>
              /\ pc'[p] = "ret"
              /\ ret'[p].err = "at_limit"
              /\ addCalls'[p] = 0
              /\ jsa' = jsa
              /\ disk' = disk
        /\ AtExistingStream(p) =>
              /\ ret'[p].err = "exists"
              /\ addCalls'[p] = 0
              /\ jsa' = jsa
              /\ disk' = disk
        /\ pc[p] = "tm_add" /\ pc'[p] # "tm_add" =>
              Len(jsa[loc[p].acct].templates[loc[p].tname].streams)
                  <= jsa[loc[p].acct].templates[loc[p].tname].MaxStreams
      ]_vars

\* A message was dropped at a full list while the streams made from the template
\* exist, and another message was left to its existing stream.
C4_Witness ==
    \E p, q \in Procs :
        /\ pc[p] = "ret" /\ ret[p].op = "dispatch" /\ ret[p].err = "at_limit"
        /\ pc[q] = "ret" /\ ret[q].op = "dispatch" /\ ret[q].err = "exists"
        /\ Len(jsa[Owner].templates[NameT].streams) = MaxTemplateStreams
        /\ {NameAB, NameC} \subseteq DOMAIN jsa[Owner].streams

-----------------------------------------------------------------------------
(* Recovery against the tree the walk started from: snap[a] is the         *)
(* account's tree when the streams directory was made, issued[a] the       *)
(* recreate calls the walk has made since.                                 *)

\* meta.sum exists and is the hex of the keyed hash of meta.inf.
SumVerifies(key, f) ==
    /\ f.inf # NoFile
    /\ f.sum # NoFile
    /\ f.sum = HexEncode(HighwayHash64(key, f.inf))

\* meta.sum exists and differs from the hex of the keyed hash of meta.inf.
SumMismatches(key, f) ==
    /\ f.inf # NoFile
    /\ f.sum # NoFile
    /\ f.sum # HexEncode(HighwayHash64(key, f.inf))

\* Account.EnableJetStream on a has returned nil and its caller has not yet
\* taken the result.
Recovered(a) ==
    \E p \in Procs :
        /\ pc[p] = "ret"
        /\ ret[p].op = "enable" /\ ret[p].acct = a /\ ret[p].err = "ok"

\* In the tree d every template and stream whose metafile verifies and parses has
\* had its recreate call and is in the account.
ValidTemplatesAndStreamsRecovered(a, d) ==
    /\ \A dir \in DOMAIN d.tdirs :
          SumVerifies(TemplatesKey, d.tdirs[dir]) /\ ParsesTemplate(d.tdirs[dir].inf) =>
              /\ Call("template", dir, EmptyName) \in issued[a]
              /\ DecodeTemplate(d.tdirs[dir].inf).Name \in DOMAIN jsa[a].templates
    /\ \A dir \in DOMAIN d.sdirs :
          SumVerifies(Sha256(dir), d.sdirs[dir]) /\ ParsesStream(d.sdirs[dir].inf) =>
              /\ Call("stream", dir, EmptyName) \in issued[a]
              /\ DecodeStream(d.sdirs[dir].inf).Name \in DOMAIN jsa[a].streams

C6_ConsumerChecksumSkip ==
    \A a \in Accounts :
        \A c \in issued[a] :
            c.kind = "consumer" =>
                SumVerifies(Sha256(c.sub), snap[a].sdirs[c.dir].obs[c.sub])

\* The entries of a map of configs that use file storage.
FileBacked(configs) ==
    [n \in {m \in DOMAIN configs : configs[m].Storage = FileStorage} |-> configs[n]]

\* C7: when no metafile was damaged, the account enabled after a restart exposes
\* the file-backed streams and templates it exposed before the restart, by name
\* and with the same configs.
C7_RecoveryRoundTrip ==
    (boots > 0 /\ ncorrupt = 0 /\ Recovered(Owner)) =>
        /\ FileBacked(StreamConfigs(jsa[Owner])) = FileBacked(pre[Owner].streams)
        /\ FileBacked(TemplateConfigs(jsa[Owner])) = FileBacked(pre[Owner].templates)

\* C8: whatever is damaged on disk, an Account.EnableJetStream that has made the
\* streams directory returns nil with the account enabled; the walk issues
\* recreate calls only for templates, streams and consumers whose metafile
\* verifies and parses; and every template and stream whose metafile verifies
\* and parses is recovered.
C8_RecoveryLocalized ==
    \A a \in Accounts :
        /\ \A p \in Procs :
              (pc[p] = "ret" /\ ret[p].op = "enable" /\ ret[p].acct = a /\ snap[a].sdir) =>
                  /\ ret[p].err = "ok"
                  /\ ajs[a]
                  /\ a \in accounts
        /\ \A c \in issued[a] :
              /\ c.kind = "template" =>
                    /\ SumVerifies(TemplatesKey, snap[a].tdirs[c.dir])
                    /\ ParsesTemplate(snap[a].tdirs[c.dir].inf)
              /\ c.kind = "stream" =>
                    /\ SumVerifies(Sha256(c.dir), snap[a].sdirs[c.dir])
                    /\ ParsesStream(snap[a].sdirs[c.dir].inf)
              /\ c.kind = "consumer" =>
                    /\ SumVerifies(Sha256(c.sub), snap[a].sdirs[c.dir].obs[c.sub])
                    /\ ParsesConsumer(snap[a].sdirs[c.dir].obs[c.sub].inf)
        /\ Recovered(a) => ValidTemplatesAndStreamsRecovered(a, snap[a])

-----------------------------------------------------------------------------
(* The refusals of Account.EnableJetStream.                                *)

\* The step of p is the call of Account.EnableJetStream: it leaves "idle" for
\* the handler or for its return.
EnableCallOf(p) ==
    /\ pc[p] = "idle"
    /\ pc'[p] # "idle"
    /\ (loc'[p].op = "enable" \/ ret'[p].op = "enable")

\* The account that call is made on.
EnableCallAccount(p) ==
    IF pc'[p] = "ret" THEN ret'[p].acct ELSE loc'[p].acct

\* The step of p is the critical section of js.mu of Account.EnableJetStream.
EnableCheckOf(p) ==
    /\ pc[p] = "en_reserve"
    /\ pc'[p] # "en_reserve"

\* The step of p returns an error from Account.EnableJetStream and leaves the
\* ledger and the account set as they were.
EnableRefused(p) ==
    /\ pc'[p] = "ret"
    /\ ret'[p].op = "enable"
    /\ ret'[p].err \notin {"ok", "none"}
    /\ UNCHANGED <<memReserved, storeReserved, accounts>>

\* C11: Account.EnableJetStream returns an error and leaves the ledger counters
\* and the set of enabled accounts unchanged when the server's JetStream is not
\* enabled, when the account is the system account, when the account is
\* already enabled, and when the ledger finds the requested limits insufficient.
C11_EnableRefusals ==
    [][\A p \in Procs :
          /\ (EnableCallOf(p) /\ ~srvJs) => EnableRefused(p)
          /\ (EnableCallOf(p) /\ EnableCallAccount(p) = SysAccount) => EnableRefused(p)
          /\ (EnableCheckOf(p) /\ loc[p].acct \in accounts) => EnableRefused(p)
          /\ (EnableCheckOf(p)
                /\ sufficientResources(memReserved, storeReserved, loc[p].limits) # "ok")
             => EnableRefused(p)]_vars

\* An enable was refused for insufficient memory while another account holds a
\* reservation.
C11_Witness ==
    /\ pc[Caller] = "ret"
    /\ ret[Caller].op = "enable"
    /\ ret[Caller].err = "insufficient_memory"
    /\ accounts # {}
    /\ ret[Caller].acct \notin accounts
    /\ memReserved > 0

\* C12: in every reachable state the system account is not a JetStream-enabled
\* account: it is not in the account set and carries no jsAccount, and every
\* call of EnableJetStream on it returns an error and leaves the ledger
\* counters and the account set unchanged.
C12_SystemAccountNeverEnabled ==
    /\ [](SysAccount \notin accounts /\ ~ajs[SysAccount])
    /\ [][\A p \in Procs :
            (EnableCallOf(p) /\ EnableCallAccount(p) = SysAccount)
               => (EnableRefused(p) /\ UNCHANGED <<ajs, jsa>>)]_vars

\* EnableJetStream on the system account has returned its error on a server
\* whose JetStream is enabled and has an account enabled.
C12_Witness ==
    /\ pc[Caller] = "ret"
    /\ ret[Caller] = [op |-> "enable", acct |-> SysAccount, err |-> "system_account"]
    /\ srvJs
    /\ accounts # {}

\* The step of p is a call of shutdownJetStream that finds s.js nil.
ShutdownOfDisabled(p) ==
    /\ pc[p] = "idle"
    /\ pc'[p] = "ret"
    /\ ret'[p].op = "shutdown"
    /\ ~srvJs

\* C15: shutdownJetStream is idempotent: when it has returned the server
\* reports JetStream disabled, the account set is empty and the ledger holds no
\* reservation; a call made when JetStream is disabled (a second call, or a
\* call on a server never enabled) changes nothing.
C15_ShutdownIdempotent ==
    /\ [](\A p \in Procs :
            (pc[p] = "ret" /\ ret[p].op = "shutdown")
               => (~srvJs /\ accounts = {} /\ memReserved = 0 /\ storeReserved = 0))
    /\ [][\A p \in Procs :
            ShutdownOfDisabled(p)
               => UNCHANGED <<srvJs, srvCfg, exports, memReserved, storeReserved,
                              accounts, jsa, ajs, disk>>]_vars

-----------------------------------------------------------------------------
(* Disable followed by enable.                                             *)

\* The step of p belongs to Account.DisableJetStream.
DisableStepOf(p) ==
    \/ pc[p] = "idle" /\ pc'[p] # "idle" /\ (loc'[p].op = "disable" \/ ret'[p].op = "disable")
    \/ pc[p] \in {"dis_lookup", "dis_ledger", "dis_delete"} /\ pc'[p] # pc[p]

\* C13: DisableJetStream is reversible: no step of it changes the persisted
\* data, when it has returned the account holds no stream and no template in
\* memory, and the EnableJetStream that follows it restores the file-backed
\* streams and templates the account exposed when DisableJetStream removed it,
\* by name and with the same configs.
C13_DisableReversible ==
    /\ [][\A p \in Procs : DisableStepOf(p) => UNCHANGED disk]_vars
    /\ [](\A p \in Procs :
            (pc[p] = "ret" /\ ret[p].op = "disable" /\ ret[p].err = "ok") =>
                /\ DOMAIN jsa[ret[p].acct].streams = {}
                /\ DOMAIN jsa[ret[p].acct].templates = {})
    /\ [](Recovered(Owner) =>
            /\ FileBacked(StreamConfigs(jsa[Owner])) = FileBacked(pre[Owner].streams)
            /\ FileBacked(TemplateConfigs(jsa[Owner])) = FileBacked(pre[Owner].templates))

-----------------------------------------------------------------------------
(* Deleting a template.                                                    *)

\* StreamTemplate.Delete of template NameT of account a has returned to p.
TemplateDeleted(p, a) ==
    /\ pc[p] = "ret"
    /\ ret[p].op = "delete_template"
    /\ ret[p].acct = a
    /\ ret[p].err \notin {"not_enabled_for_account", "template_not_found"}

\* The streams of account a whose config names template NameT.
StreamsOfTemplate(a) ==
    {n \in DOMAIN jsa[a].streams : jsa[a].streams[n].Template = NameT}

\* C14: StreamTemplate.Delete runs every cleanup step whatever fails: when it
\* has returned, the template is out of the account's map, the delete from the
\* store was called, every stream the template owns was deleted or had its
\* delete called and failed, and the error returned is nil only if no step
\* failed.
C14_DeleteRunsEveryStep ==
    \A p \in Procs, a \in Accounts :
        TemplateDeleted(p, a) =>
            /\ jsa[a].tmplNil \/ NameT \notin DOMAIN jsa[a].templates
            /\ Call("store_delete", NameT, EmptyName) \in issued[a]
            /\ \A n \in StreamsOfTemplate(a) :
                  Call("stream_delete", n, EmptyName) \in issued[a]
            /\ ret[p].err = "ok" =>
                  /\ NameT \notin DOMAIN disk[a].tdirs
                  /\ StreamsOfTemplate(a) = {}

-----------------------------------------------------------------------------
(* The server's exports and the accounts; the ledger under concurrent      *)
(* disable, shutdown and update.                                           *)

\* C16: no account becomes JetStream-enabled before Server.EnableJetStream has
\* added every export of allJsExports to the system account: an account that
\* is in the account set or carries a jsAccount finds every export set up.
C16_ExportsBeforeAccounts ==
    \A a \in AllAccounts :
        (a \in accounts \/ ajs[a]) => exports = AllExports

\* C19: when DisableJetStream, shutdownJetStream and UpdateJetStreamLimits run
\* concurrently on one account, its reservation is released once: the ledger
\* counters are never negative, and when every call has returned they equal
\* the sums of the positive limits of the accounts in the account set.
C19_ReleasedOnce ==
    /\ memReserved >= 0
    /\ storeReserved >= 0
    /\ Quiescent =>
          /\ memReserved = SumOver(accounts, [a \in AllAccounts |-> Pos(jsa[a].limits.MaxMemory)])
          /\ storeReserved = SumOver(accounts, [a \in AllAccounts |-> Pos(jsa[a].limits.MaxStore)])

-----------------------------------------------------------------------------
(* Recovery of ephemeral consumers.                                        *)

\* The consumer directory odir of stream directory sname was, when the recovery
\* of account a began, one the walk adopts, of a stream the walk recovers.
PersistedConsumer(a, sname, odir) ==
    /\ sname \in DOMAIN snap[a].sdirs
    /\ SumVerifies(Sha256(sname), snap[a].sdirs[sname])
    /\ ParsesStream(snap[a].sdirs[sname].inf)
    /\ DecodeStream(snap[a].sdirs[sname].inf).Name = sname
    /\ odir \in DOMAIN snap[a].sdirs[sname].obs
    /\ ConsumerAdoptable(odir, snap[a].sdirs[sname].obs[odir])

PersistedEphemeral(a, sname, odir) ==
    /\ PersistedConsumer(a, sname, odir)
    /\ DecodeConsumer(snap[a].sdirs[sname].obs[odir].inf).Durable = EmptyName

PersistedDurable(a, sname, odir) ==
    /\ PersistedConsumer(a, sname, odir)
    /\ DecodeConsumer(snap[a].sdirs[sname].obs[odir].inf).Durable # EmptyName

\* A step takes the consumer name of stream sname of account a out of durable mode.
SwitchedToEphemeral(a, sname, name) ==
    /\ sname \in DOMAIN jsa[a].streams
    /\ name \in DOMAIN jsa[a].streams[sname].consumers
    /\ jsa[a].streams[sname].consumers[name].Durable
    /\ sname \in DOMAIN jsa'[a].streams
    /\ name \in DOMAIN jsa'[a].streams[sname].consumers
    /\ ~jsa'[a].streams[sname].consumers[name].Durable

\* C17: between its recreation and the end of its recovery a consumer persisted
\* as ephemeral is a durable consumer named after its directory; when the enable
\* has returned nil it is on its stream, ephemeral, with the state its store
\* held; and only a consumer persisted as ephemeral is ever switched to ephemeral.
C17_EphemeralRecovery ==
    /\ [](\A p \in Procs :
            (pc[p] = "en_switch" /\ loc[p].eph) =>
                /\ PersistedEphemeral(loc[p].acct, loc[p].mset, loc[p].cn)
                /\ loc[p].cn \in DOMAIN jsa[loc[p].acct].streams[loc[p].mset].consumers
                /\ jsa[loc[p].acct].streams[loc[p].mset].consumers[loc[p].cn].Durable)
    /\ [](\A a \in Accounts :
            Recovered(a) =>
                \A sname \in DOMAIN snap[a].sdirs : \A odir \in DOMAIN snap[a].sdirs[sname].obs :
                    PersistedEphemeral(a, sname, odir) =>
                        /\ sname \in DOMAIN jsa[a].streams
                        /\ odir \in DOMAIN jsa[a].streams[sname].consumers
                        /\ ~jsa[a].streams[sname].consumers[odir].Durable
                        /\ jsa[a].streams[sname].consumers[odir].state =
                              snap[a].sdirs[sname].obs[odir].state)
    /\ [][\A a \in Accounts : \A sname \in DOMAIN jsa[a].streams :
          \A name \in DOMAIN jsa[a].streams[sname].consumers :
            SwitchedToEphemeral(a, sname, name) =>
                /\ PersistedEphemeral(a, sname, name)
                /\ ~PersistedDurable(a, sname, name)]_vars

-----------------------------------------------------------------------------
(* The effective JetStreamConfig.                                          *)

\* The server is in a Server.EnableJetStream that p runs and that has set s.js.
ServerEnabling(p) ==
    /\ loc[p].op = "server_enable"
    /\ pc[p] \in {"se_dir", "se_exports", "se_snapshot", "se_config"}

\* C18: the effective config of a running Server.EnableJetStream keeps every
\* supplied field (a positive max_memory, a positive max_store, a non-empty
\* store_dir) whatever the other fields are, and has in place of a missing
\* max_memory three quarters of the detected memory or 256 MiB, in place of a
\* missing max_store the disk available, and in place of a missing store_dir
\* <tmp>/nats/jetstream.
C18_FillsOnlyMissingFields ==
    \A p \in Procs :
        ServerEnabling(p) =>
            LET c == loc[p].config
                given == ~c.isNil
            IN /\ srvCfg.MaxMemory =
                     IF given /\ c.MaxMemory > 0 THEN c.MaxMemory
                     ELSE IF loc[p].sysMem > 0 THEN (loc[p].sysMem * 3) \div 4
                     ELSE JetStreamMaxMemDefault
               /\ srvCfg.MaxStore =
                     IF given /\ c.MaxStore > 0 THEN c.MaxStore ELSE loc[p].avail
               /\ srvCfg.StoreDir =
                     IF given /\ c.StoreDir # EmptyPath THEN c.StoreDir
                     ELSE Join(Join(TempDir, "nats"), JetStreamStoreDir)

-----------------------------------------------------------------------------
(* The cap of a template over dispatch, validateStreams and recovery.      *)

\* The streams of account a whose config names the template tname.
StreamsNaming(a, tname) ==
    {sname \in DOMAIN jsa[a].streams : jsa[a].streams[sname].Template = tname}

\* C20: in every reachable state the streams of an account whose config names
\* a template t number at most t.MaxStreams, whatever the interleaving of
\* dispatches, of validateStreams after a failed AddStream, and of recovery.
C20_StreamsWithinCap ==
    \A a \in Accounts :
        \A tname \in DOMAIN jsa[a].templates :
            Cardinality(StreamsNaming(a, tname)) <= jsa[a].templates[tname].MaxStreams

-----------------------------------------------------------------------------
(* The two enablement records.                                             *)

\* C21: whenever no operation is in progress, a.js is set exactly for the
\* accounts that are in the account set of the control plane.
C21_EnablementRecordsAgree ==
    Quiescent => \A a \in AllAccounts : ajs[a] <=> a \in accounts

-----------------------------------------------------------------------------
(* Account.EnableJetStream against shutdownJetStream.                      *)

\* A shutdownJetStream has collected the accounts and not yet returned.
ShutdownPastCollect ==
    \E q \in Procs : pc[q] \in {"sd_disable", "sd_delete", "sd_accounts"}

\* The step of an Account.EnableJetStream that registers an account or reserves.
Registers ==
    \/ ~(accounts' \subseteq accounts)
    \/ memReserved' > memReserved
    \/ storeReserved' > storeReserved

\* C22: an Account.EnableJetStream registers and reserves only in a control
\* plane that is set in the server and that no shutdownJetStream has collected
\* the accounts of; past that point it fails with not-enabled, so it never ends
\* in the panic of a write into the cleared account set.
C22_EnableNeverAfterTeardown ==
    /\ [][Registers => (srvJs /\ ~ShutdownPastCollect)]_vars
    /\ [](\A p \in Procs : pc[p] = "ret" /\ ret[p].op = "enable" => ret[p].err # "panic")

-----------------------------------------------------------------------------
(* Errors of Account.EnableJetStream.                                      *)

\* The Account.EnableJetStream of p has returned an error that arose after its
\* reservation: the service imports or the streams directory failed.
EnableFailedLate(p) ==
    /\ pc[p] = "ret"
    /\ ret[p].op = "enable"
    /\ ret[p].err \in {"imports", "mkdir"}

\* C23: an Account.EnableJetStream that returns an error of the service
\* imports or of the streams directory leaves the account out of the account
\* set and with a.js unset.
C23_FailedEnableNotEnabled ==
    \A p \in Procs :
        EnableFailedLate(p) => ret[p].acct \notin accounts /\ ~ajs[ret[p].acct]

-----------------------------------------------------------------------------
(* The lock hierarchy.                                                     *)

\* Goroutine p waits in a Lock or RLock call that cannot return.
Blocked(p) ==
    /\ pc[p] = "locks"
    /\ loc[p].script # << >>
    /\ Head(loc[p].script).act = "lock"
    /\ ~Available(Head(loc[p].script))

\* Some goroutines wait for each other for ever: each is blocked, and none is
\* left outside to release what they wait for.
Deadlocked ==
    \E S \in SUBSET Procs :
        /\ S # {}
        /\ \A p \in S : Blocked(p)
        /\ \A p \in S :
              LET e == Head(loc[p].script)
              IN Holders(e.lock, "w") \cup
                 (IF e.mode = "w" THEN Holders(e.lock, "r") ELSE {}) \subseteq S

\* C24: every goroutine holds its locks in the order server.mu, js.mu,
\* account.mu, jsa.mu, t.mu (a lock taken later is lower in the hierarchy than
\* every lock held), and no goroutines deadlock.
C24_LockOrder ==
    /\ \A p \in Procs :
          \A i, j \in DOMAIN loc[p].held :
              i < j => LockRank(loc[p].held[i].lock) < LockRank(loc[p].held[j].lock)
    /\ ~Deadlocked

-----------------------------------------------------------------------------
(* The first message of a materialized stream.                             *)

\* C25: when the dispatch that created a stream has re-delivered its message,
\* that message is the first of the stream's log.
C25_TriggerIngestedFirst ==
    [][\A p \in Procs :
          (pc[p] = "tm_deliver" /\ pc'[p] = "ret") =>
              LET s == jsa'[loc[p].acct].streams[loc[p].mset]
              IN s.msgs # << >> /\ Head(s.msgs) = "redelivered"]_vars

-----------------------------------------------------------------------------
(* The names of a template's stream list.                                  *)

\* C26: no stream list of a template holds the same name twice.
C26_StreamListHasNoDuplicate ==
    \A a \in Accounts :
        \A tname \in DOMAIN jsa[a].templates :
            LET l == jsa[a].templates[tname].streams
            IN \A i, j \in DOMAIN l : l[i] = l[j] => i = j

-----------------------------------------------------------------------------
(* The order of the recovery passes.                                       *)

\* The calls of the given kind that the step adds to the recovery of a.
NewCalls(a, kind) == {c \in issued'[a] \ issued[a] : c.kind = kind}

\* The stream that the streams directory dir of a configures names a template
\* the account has, and the template does not list the stream.
UnlistedInTemplate(a, dir) ==
    LET cfg == DecodeStream(disk[a].sdirs[dir].inf)
    IN /\ cfg.Template # EmptyName
       /\ ~jsa[a].tmplNil
       /\ cfg.Template \in DOMAIN jsa[a].templates
       /\ \A i \in DOMAIN jsa[a].templates[cfg.Template].streams :
              jsa[a].templates[cfg.Template].streams[i] # cfg.Name

\* The AddStream of this recovery for the directory dir of a succeeded.
StreamRecovered(a, dir) ==
    /\ Call("stream", dir, EmptyName) \in issued[a]
    /\ DecodeStream(disk[a].sdirs[dir].inf).Name \in DOMAIN jsa[a].streams

\* The step removes the snapshots directory of a.
SnapshotsRemoved(a) == disk[a].snaps /\ ~disk'[a].snaps

\* C27: recovery recreates templates, then streams, then consumers: a template
\* is recreated only while no stream or consumer of this recovery was, a stream
\* only after the templates pass and with its name already listed in the
\* template it names, a consumer only on a stream whose AddStream succeeded in
\* this recovery; the snapshots directory is removed only by the step that ends
\* the streams pass and returns.
C27_RecoveryOrder ==
    /\ [](\A p \in Procs : pc[p] = "en_tmpl" =>
             \A c \in issued[loc[p].acct] : c.kind \notin {"stream", "consumer"})
    /\ [][\A a \in Accounts :
            /\ NewCalls(a, "template") # {} =>
                  \A c \in issued[a] : c.kind \notin {"stream", "consumer"}
            /\ \A c \in NewCalls(a, "stream") :
                  /\ \E p \in Procs : pc[p] = "en_add" /\ loc[p].acct = a /\ loc[p].cur = c.dir
                  /\ ~UnlistedInTemplate(a, c.dir)
            /\ \A c \in NewCalls(a, "consumer") :
                  /\ StreamRecovered(a, c.dir)
                  /\ \E p \in Procs : /\ pc[p] = "en_cons" /\ loc[p].acct = a
                                      /\ loc[p].mset = DecodeStream(disk[a].sdirs[c.dir].inf).Name
            /\ SnapshotsRemoved(a) =>
                  \E p \in Procs : /\ pc[p] = "en_stream" /\ loc[p].acct = a
                                   /\ loc[p].todo = << >> /\ loc[p].ctodo = << >>
                                   /\ pc'[p] = "ret"
                                   /\ issued'[a] = issued[a]]_vars

\* A recovery has recreated a template, a stream that names it and a consumer of
\* a recovered stream, and has removed a snapshots directory left by the last run.
C27_Witness ==
    \E p \in Procs :
        /\ pc[p] = "ret" /\ ret[p].op = "enable" /\ ret[p].err = "ok"
        /\ boots > 0
        /\ snap[ret[p].acct].snaps
        /\ ~disk[ret[p].acct].snaps
        /\ \E t, s, c \in issued[ret[p].acct] :
              /\ t.kind = "template" /\ s.kind = "stream" /\ c.kind = "consumer"
              /\ StreamRecovered(ret[p].acct, c.dir)
              /\ StreamRecovered(ret[p].acct, s.dir)
              /\ ~UnlistedInTemplate(ret[p].acct, s.dir)
              /\ DecodeStream(disk[ret[p].acct].sdirs[s.dir].inf).Template = t.dir

-----------------------------------------------------------------------------
(* The store of an accepted template.                                      *)

\* The templates directory of a holds the metafile pair of the template name
\* of a as the file-backed template store writes it.
TemplateOnDisk(a, name) ==
    /\ name \in DOMAIN disk[a].tdirs
    /\ disk[a].tdirs[name] =
          MetaPair(TemplatesKey,
                   EncodeTemplate([Name |-> name, Storage |-> jsa[a].templates[name].Storage,
                                   MaxStreams |-> jsa[a].templates[name].MaxStreams]))

\* C28: when no metafile was damaged, every file-storage template an account
\* holds is in the file-backed template store, whatever templates were added
\* before it, and an account recovered after a restart holds the file-storage
\* templates it held before.
C28_FileTemplateStored ==
    ncorrupt = 0 =>
        /\ \A a \in Accounts : \A name \in DOMAIN jsa[a].templates :
              jsa[a].templates[name].Storage = FileStorage => TemplateOnDisk(a, name)
        /\ (boots > 0 /\ Recovered(Owner)) =>
              DOMAIN FileBacked(pre[Owner].templates) \subseteq DOMAIN jsa[Owner].templates

-----------------------------------------------------------------------------
(* A Server.EnableJetStream that fails.                                    *)

\* Server.EnableJetStream has returned to p an error other than the refusal of
\* a second enable.
ServerEnableFailed(p) ==
    /\ pc[p] = "ret"
    /\ ret[p].op = "server_enable"
    /\ ret[p].err \notin {"ok", "already_enabled"}

\* C29: when Server.EnableJetStream has returned an error, s.js is nil: the
\* server does not report JetStream enabled, and the next Server.EnableJetStream,
\* which is refused exactly when s.js is set (line 94), is not refused.
C29_FailedServerEnableNotEnabled ==
    \A p \in Procs : ServerEnableFailed(p) => ~srvJs

====
